---- MODULE Spec2Model ----
(***************************************************************************)
(* A model of mcp_github_app/server.py: the installation-token cache of    *)
(* MCPGitHubAppServer and the resolution policy of create_pull_request.    *)
(*                                                                         *)
(* Time is in seconds.  Python's None and its other falsy values of the    *)
(* cached fields are written 0; a token string is a positive number (the   *)
(* n-th token the issuance endpoint has handed out).                       *)
(***************************************************************************)
EXTENDS Integers, Sequences, FiniteSets, TLC

VARIABLES
    now,                  \* time.time()
    private_key,          \* self.private_key: "" or the key material
    private_key_path,     \* self.private_key_path: "", "readable" or "missing"
    _installation_token,  \* self._installation_token
    _token_expires_at,    \* self._token_expires_at
    github,               \* self.github: 0, or the token the client was built with
    requests,             \* POSTs received by the token-issuance endpoint
    recorded,             \* recorded[t]: the expiry cached together with token t
    calls,                \* the _get_installation_token calls of the last invocation
    api,                  \* the GitHub API calls of the last invocation
    pc,                   \* concurrent callers: position in _get_installation_token
    inbox,                \* concurrent callers: the endpoint's answer being handled
    default_branch,       \* repository.default_branch
    branches,             \* repository.get_branches(), in enumeration order
    pulls,                \* the repository's pull requests, in enumeration order
    invocations,          \* create_pull_request invocations made so far
    pr_args,              \* head and base passed to the last invocation
    pr_env,               \* what the world outside did during the last invocation
    pr_result,            \* what the last invocation returned
    remote_log,           \* the remote calls of the last invocation that are kept
    branch_name,          \* the branch_name argument of create_branch
    branch_result,        \* what create_branch returned
    stdin,                \* the lines standard input holds, in order
    served,               \* the lines the loop has read so far
    stdout,               \* the lines the loop has printed, in order
    server,               \* "running", "ended" (end of input) or "crashed"
    tree,                 \* the repository's contents: (branch, path) -> entry
    file_args,            \* path and branch passed to create_or_update_file
    file_env,             \* what the call found and what failed during it
    file_result,          \* what create_or_update_file returned
    file_log              \* the remote calls of create_or_update_file

tokenVars == <<now, private_key, private_key_path, _installation_token,
               _token_expires_at, github, requests, recorded, calls, api>>
concVars == <<pc, inbox>>
repoVars == <<default_branch, branches, pulls>>
prVars == <<repoVars, invocations, pr_args, pr_env, pr_result, remote_log>>
branchVars == <<branch_name, branch_result>>
loopVars == <<stdin, served, stdout, server>>
fileVars == <<tree, file_args, file_env, file_result, file_log>>

----------------------------------------------------------------------------
(* Bounds of the model. *)
MaxTime == 3540
MaxRequests == 2
NumCallers == 2

(* Program constants. *)
None == 0
REFRESH_MARGIN == 60
FALLBACK_LIFETIME == 3300
JWT_BACKDATE == 60
JWT_LIFETIME == 600
TOKEN_LIFETIME == 3600
SECONDS_PER_DAY == 86400

Ticks == {300, 3240}
Callers == 1..NumCallers

----------------------------------------------------------------------------
(* The issuance endpoint's expires_at is an ISO-8601 string "<date>T<time>Z"; *)
(* the code parses it back to a timestamp.                                    *)
IsoFormat(t) == [date |-> t \div SECONDS_PER_DAY, time |-> t % SECONDS_PER_DAY]

FromIsoFormat(s) == s.date * SECONDS_PER_DAY + s.time

(* What the endpoint can answer to a POST received at time t, handing out   *)
(* token tok: a failure status, or a 2xx body with or without a token and   *)
(* with an expires_at that is absent, unparsable or an ISO-8601 string.     *)
Expiry(form, t) == [form |-> form] @@ IsoFormat(t)

Responses(t, tok) ==
    { [status |-> 500, token |-> None, expires_at |-> Expiry("absent", 0)],
      [status |-> 201, token |-> None, expires_at |-> Expiry("absent", 0)],
      [status |-> 201, token |-> tok, expires_at |-> Expiry("absent", 0)],
      [status |-> 201, token |-> tok, expires_at |-> Expiry("unparsable", 0)],
      [status |-> 201, token |-> tok, expires_at |-> Expiry("iso", t + TOKEN_LIFETIME)] }

NoResponse == [status |-> 0, token |-> None, expires_at |-> Expiry("absent", 0)]

(* The same with a key found whatever the configuration. *)
LoadPrivateKeyAlways(key, path) == TRUE

(* _load_private_key: TRUE when it returns key material, FALSE when it raises. *)
LoadPrivateKey(key, path) == key # "" \/ path = "readable"

(* _generate_jwt: the payload signed; it raises when the key cannot be loaded. *)
GenerateJwt(key, path, t) ==
    [raised |-> ~LoadPrivateKey(key, path),
     iat |-> t - JWT_BACKDATE, exp |-> t + JWT_LIFETIME, iss |-> "app_id"]

(* The same with a margin of an hour instead of a minute. *)
CacheHitHourMargin(tok, exp, t) == tok # None /\ exp # None /\ t < exp - 3600

(* Lines 73-75: the cached token is returned as it is. *)
CacheHit(tok, exp, t) == tok # None /\ exp # None /\ t < exp - REFRESH_MARGIN

(* The same with the fallback lifetime taken in seconds, not minutes. *)
StoreResponseFallbackSeconds(tok, exp, t, r) ==
    IF r.status >= 400 \/ r.token = None
    THEN [token |-> tok, expires |-> exp, ret |-> None, raised |-> TRUE]
    ELSE IF r.expires_at.form = "absent"
    THEN [token |-> r.token, expires |-> t + 55,
          ret |-> r.token, raised |-> FALSE]
    ELSE IF r.expires_at.form = "unparsable"
    THEN [token |-> r.token, expires |-> exp, ret |-> None, raised |-> TRUE]
    ELSE [token |-> r.token, expires |-> FromIsoFormat(r.expires_at),
          ret |-> r.token, raised |-> FALSE]

(* The same with the cache cleared when the endpoint answers an error. *)
StoreResponseClearsOnFailure(tok, exp, t, r) ==
    IF r.status >= 400 \/ r.token = None
    THEN [token |-> None, expires |-> None, ret |-> None, raised |-> TRUE]
    ELSE IF r.expires_at.form = "absent"
    THEN [token |-> r.token, expires |-> t + FALLBACK_LIFETIME,
          ret |-> r.token, raised |-> FALSE]
    ELSE IF r.expires_at.form = "unparsable"
    THEN [token |-> r.token, expires |-> exp, ret |-> None, raised |-> TRUE]
    ELSE [token |-> r.token, expires |-> FromIsoFormat(r.expires_at),
          ret |-> r.token, raised |-> FALSE]

(* Lines 88-100 on the endpoint's answer r: the fields after the call, the  *)
(* value returned (None when the call raises).                              *)
StoreResponse(tok, exp, t, r) ==
    IF r.status >= 400 \/ r.token = None
    THEN [token |-> tok, expires |-> exp, ret |-> None, raised |-> TRUE]
    ELSE IF r.expires_at.form = "absent"
    THEN [token |-> r.token, expires |-> t + FALLBACK_LIFETIME,
          ret |-> r.token, raised |-> FALSE]
    ELSE IF r.expires_at.form = "unparsable"
    THEN [token |-> r.token, expires |-> exp, ret |-> None, raised |-> TRUE]
    ELSE [token |-> r.token, expires |-> FromIsoFormat(r.expires_at),
          ret |-> r.token, raised |-> FALSE]

(* _get_installation_token called at time t with the cache (tok, exp), the  *)
(* key configuration and the answer r the endpoint gives if it is asked.    *)
GetInstallationToken(tok, exp, t, key, path, r) ==
    IF CacheHit(tok, exp, t)
    THEN [token |-> tok, expires |-> exp, ret |-> tok, raised |-> FALSE, sent |-> 0]
    ELSE IF GenerateJwt(key, path, t).raised
    THEN [token |-> tok, expires |-> exp, ret |-> None, raised |-> TRUE, sent |-> 0]
    ELSE [sent |-> 1] @@ StoreResponse(tok, exp, t, r)

(* The record kept of one _get_installation_token call. *)
CallRecord(tok, exp, t, r, out) ==
    [pre_token |-> tok, pre_expires |-> exp, at |-> t, resp |-> r,
     sent |-> out.sent, ret |-> out.ret, raised |-> out.raised,
     post_token |-> out.token, post_expires |-> out.expires]

(* _get_github_client: the client is built on first use and kept. *)
GetGithubClient(gh, tok, exp, t, key, path, r) ==
    IF gh = None
    THEN LET out == GetInstallationToken(tok, exp, t, key, path, r)
         IN  [github |-> out.ret, raised |-> out.raised, token |-> out.token,
              expires |-> out.expires, sent |-> out.sent,
              calls |-> <<CallRecord(tok, exp, t, r, out)>>]
    ELSE [github |-> gh, raised |-> FALSE, token |-> tok, expires |-> exp,
          sent |-> 0, calls |-> <<>>]

(* The endpoint hands out token Len(recorded) + 1 next; recorded keeps, for *)
(* each token handed out, the expiry the server cached when it returned it. *)
NextToken == Len(recorded) + 1

Issue(rec, r, out) ==
    IF out.sent = 1 /\ r.status < 400 /\ r.token # None
    THEN Append(rec, IF out.raised THEN None ELSE out.expires)
    ELSE rec

----------------------------------------------------------------------------
(* The repository as the GitHub API shows it.  A string is the sequence of  *)
(* its characters; the empty string stands for an absent argument too, as   *)
(* the code tests "not head" and "not base".                                *)

Absent == <<>>
Main == <<"m", "a", "i", "n">>
Dev == <<"d", "e", "v">>
Feat == <<"f", "e", "a", "t">>

(* The commits: 1 <- 2 <- 3 on one line and 1 <- 4 <- 5 on another.         *)
(* History(c) is repository.get_commits(sha=c): c first, then its ancestors. *)
Parent(c) == IF c = 4 THEN 1 ELSE c - 1

RECURSIVE History(_)
History(c) == IF c = 0 THEN <<>> ELSE <<c>> \o History(Parent(c))

(* The committer date of a commit; 2 and 4 were committed at the same time. *)
CommitDate(c) == IF c = 4 THEN 2 ELSE c

Range(seq) == {seq[i] : i \in DOMAIN seq}

Env(fault, nn, aware) == [fault |-> fault, nn |-> nn, aware |-> aware]

NoResult ==
    [success |-> FALSE, error |-> "none", head |-> Absent, base |-> Absent,
     resolved_head |-> Absent, resolved_base |-> Absent,
     reports_new_branch |-> FALSE, new_branch |-> Absent, original_head |-> Absent]

(* create_branch not called yet. *)
NoBranchResult ==
    [called |-> FALSE, success |-> FALSE, error |-> "none",
     branch_name |-> Absent, original_branch_name |-> Absent]

NoBranchCall ==
    /\ branch_name = Absent
    /\ branch_result = NoBranchResult

(* No line on standard input and none read. *)
NoInput ==
    /\ stdin = <<>>
    /\ served = 0
    /\ stdout = <<>>
    /\ server = "running"

(* A path of the repository holds a file (with its blob sha), a directory  *)
(* or nothing.                                                              *)
NoEntry == [kind |-> "absent", sha |-> 0]

NoFileResult ==
    [called |-> FALSE, success |-> FALSE, action |-> "", error |-> "",
     branch |-> Absent]

(* No create_or_update_file call made. *)
NoFileCall ==
    /\ file_args = [path |-> "", branch |-> Absent]
    /\ file_env = [fault |-> "none", entry |-> NoEntry]
    /\ file_result = NoFileResult
    /\ file_log = <<>>

NoFiles ==
    /\ tree = [x \in {<<Main, "README.md">>} |-> NoEntry]
    /\ NoFileCall

NoRepository ==
    /\ default_branch = Main
    /\ branches = <<>>
    /\ pulls = <<>>
    /\ invocations = 0
    /\ pr_args = [head |-> Absent, base |-> Absent]
    /\ pr_env = Env("none", 10, FALSE)
    /\ pr_result = NoResult
    /\ remote_log = <<>>

----------------------------------------------------------------------------
(* The server handling tool calls one after the other. *)

TokenInit ==
    /\ now = 0
    /\ private_key \in {"", "PEM"}
    /\ private_key_path \in {"", "readable", "missing"}
    /\ _installation_token = None
    /\ _token_expires_at = None
    /\ github = None
    /\ requests = 0
    /\ recorded = <<>>
    /\ calls = <<>>
    /\ api = <<>>

ConcIdle ==
    /\ pc = [c \in Callers |-> "idle"]
    /\ inbox = [c \in Callers |-> NoResponse]

Init == TokenInit /\ ConcIdle /\ NoRepository /\ NoBranchCall /\ NoInput /\ NoFiles

(* time.time() moves on between invocations. *)
Tick ==
    /\ \E d \in Ticks : now + d <= MaxTime /\ now' = now + d
    /\ UNCHANGED <<private_key, private_key_path, _installation_token,
                   _token_expires_at, github, requests, recorded, calls, api>>
    /\ UNCHANGED <<concVars, prVars, branchVars, loopVars, fileVars>>

(* A tool that works through the PyGithub client only: read_file,          *)
(* create_branch, create_or_update_file, create_pull_request,              *)
(* list_branches, get_repository, list_pull_requests, get_pull_request.    *)
ClientTool ==
    /\ requests < MaxRequests
    /\ \E r \in Responses(now, NextToken) :
         LET c == GetGithubClient(github, _installation_token, _token_expires_at,
                                  now, private_key, private_key_path, r)
         IN  /\ github' = c.github
             /\ _installation_token' = c.token
             /\ _token_expires_at' = c.expires
             /\ requests' = requests + c.sent
             /\ recorded' = IF c.calls = <<>> THEN recorded
                                              ELSE Issue(recorded, r, c)
             /\ calls' = c.calls
             /\ api' = IF c.raised THEN <<>>
                                   ELSE <<[token |-> c.github, at |-> now]>>
    /\ UNCHANGED <<now, private_key, private_key_path>>
    /\ UNCHANGED <<concVars, prVars, branchVars, loopVars, fileVars>>

(* list_repositories: the client first; with an owner the client's        *)
(* get_user, and when that raises, or with no owner, a token asked of      *)
(* _get_installation_token for a direct GET of /installation/repositories. *)
ListRepositories ==
    /\ requests < MaxRequests
    /\ \E r \in Responses(now, NextToken),
          how \in {"no_owner", "owner", "owner_get_user_raises"} :
         LET c == GetGithubClient(github, _installation_token, _token_expires_at,
                                  now, private_key, private_key_path, r)
             owner == how # "no_owner"
             direct == ~c.raised /\ how # "owner"
             d == GetInstallationToken(c.token, c.expires, now,
                                       private_key, private_key_path, r)
             byClient == IF ~c.raised /\ owner
                         THEN <<[token |-> c.github, at |-> now]>> ELSE <<>>
             byToken == IF direct /\ ~d.raised
                        THEN <<[token |-> d.ret, at |-> now]>> ELSE <<>>
         IN  /\ github' = c.github
             /\ _installation_token' = IF direct THEN d.token ELSE c.token
             /\ _token_expires_at' = IF direct THEN d.expires ELSE c.expires
             /\ requests' = requests + c.sent + (IF direct THEN d.sent ELSE 0)
             /\ recorded' = IF c.calls # <<>> THEN Issue(recorded, r, c)
                            ELSE IF direct THEN Issue(recorded, r, d)
                            ELSE recorded
             /\ calls' = c.calls \o
                    (IF direct
                     THEN <<CallRecord(c.token, c.expires, now, r, d)>> ELSE <<>>)
             /\ api' = byClient \o byToken
    /\ UNCHANGED <<now, private_key, private_key_path>>
    /\ UNCHANGED <<concVars, prVars, branchVars, loopVars, fileVars>>

Next == Tick \/ ClientTool \/ ListRepositories

vars == <<tokenVars, concVars, prVars, branchVars, loopVars, fileVars>>

Spec == Init /\ [][Next]_vars

----------------------------------------------------------------------------
(* Several callers inside _get_installation_token at once.  A caller is at *)
(* "idle" (not in the call), "mint" (past the check of lines 73-75, about  *)
(* to build the JWT), "wait" (the POST of line 87 is in flight), "expiry"  *)
(* (line 91 done, lines 93-98 to do) or "done" (returned or raised).       *)

(* Lines 73-75. *)
Check(c) ==
    /\ pc[c] = "idle"
    /\ pc' = [pc EXCEPT ![c] =
                IF CacheHit(_installation_token, _token_expires_at, now)
                THEN "done" ELSE "mint"]
    /\ UNCHANGED <<inbox, tokenVars, prVars, branchVars, loopVars, fileVars>>

(* Lines 78-87: the JWT is built and the request sent. *)
Post(c) ==
    /\ pc[c] = "mint"
    /\ requests < MaxRequests
    /\ LET jwt == GenerateJwt(private_key, private_key_path, now)
       IN  /\ pc' = [pc EXCEPT ![c] = IF jwt.raised THEN "done" ELSE "wait"]
           /\ requests' = IF jwt.raised THEN requests ELSE requests + 1
    /\ UNCHANGED <<inbox, now, private_key, private_key_path, _installation_token,
                   _token_expires_at, github, recorded, calls, api>>
    /\ UNCHANGED <<prVars, branchVars, loopVars, fileVars>>

(* Lines 88-91: the answer arrives; a 2xx body with a token is stored. *)
Receive(c) ==
    /\ pc[c] = "wait"
    /\ \E r \in Responses(now, NextToken) :
         LET ok == r.status < 400 /\ r.token # None
         IN  /\ pc' = [pc EXCEPT ![c] = IF ok THEN "expiry" ELSE "done"]
             /\ inbox' = [inbox EXCEPT ![c] = r]
             /\ _installation_token' = IF ok THEN r.token ELSE _installation_token
             /\ recorded' = IF ok THEN Append(recorded, None) ELSE recorded
    /\ UNCHANGED <<now, private_key, private_key_path, _token_expires_at, github,
                   requests, calls, api>>
    /\ UNCHANGED <<prVars, branchVars, loopVars, fileVars>>

(* Lines 93-100: the expiry is stored and the token returned. *)
StoreExpiry(c) ==
    /\ pc[c] = "expiry"
    /\ LET out == StoreResponse(_installation_token, _token_expires_at, now, inbox[c])
       IN  /\ _token_expires_at' = out.expires
           /\ recorded' = [recorded EXCEPT ![inbox[c].token] =
                             IF out.raised THEN None ELSE out.expires]
    /\ pc' = [pc EXCEPT ![c] = "done"]
    /\ UNCHANGED <<inbox, now, private_key, private_key_path, _installation_token,
                   github, requests, calls, api>>
    /\ UNCHANGED <<prVars, branchVars, loopVars, fileVars>>

(* The caller leaves the call. *)
Return(c) ==
    /\ pc[c] = "done"
    /\ pc' = [pc EXCEPT ![c] = "idle"]
    /\ inbox' = [inbox EXCEPT ![c] = NoResponse]
    /\ UNCHANGED <<tokenVars, prVars, branchVars, loopVars, fileVars>>

ConcNext ==
    \/ Tick
    \/ \E c \in Callers : Check(c) \/ Post(c) \/ Receive(c) \/ StoreExpiry(c) \/ Return(c)

SpecConc == Init /\ [][ConcNext]_vars

----------------------------------------------------------------------------
(* create_pull_request.                                                     *)

(* A branch as enumerated: its name, the commit it points at, and whether   *)
(* the commit's date can be read: "ok"; "no_date" (neither committer nor    *)
(* author is set); "raises" (reading the commit raises).                    *)
Branch(name, sha, meta) == [name |-> name, sha |-> sha, meta |-> meta]

HasBranch(bs, name) == \E i \in DOMAIN bs : bs[i].name = name

(* repository.get_branch(name).commit.sha, for a branch that exists. *)
BranchSha(bs, name) == (CHOOSE b \in Range(bs) : b.name = name).sha

BranchMeta(bs, name) == (CHOOSE b \in Range(bs) : b.name = name).meta

(* Lines 946-958 and 1000-1022: the commit date, or datetime.now(). *)
PushedAt(b, t) == IF b.meta = "ok" THEN CommitDate(b.sha) ELSE t

(* The same putting a record before those of an equal key. *)
KeyLT(a, b) == a[1] < b[1] \/ (a[1] = b[1] /\ a[2] < b[2])

(* list.sort: a stable sort of records by their key, a pair compared as    *)
(* Python compares tuples.                                                 *)
KeyLE(a, b) == a[1] < b[1] \/ (a[1] = b[1] /\ a[2] <= b[2])

RECURSIVE Insert(_, _)
Insert(sorted, x) ==
    IF sorted = <<>> THEN <<x>>
    ELSE IF KeyLE(Head(sorted).key, x.key)
         THEN <<Head(sorted)>> \o Insert(Tail(sorted), x)
         ELSE <<x>> \o sorted

RECURSIVE Sort(_)
Sort(seq) ==
    IF seq = <<>> THEN <<>>
    ELSE Insert(Sort(SubSeq(seq, 1, Len(seq) - 1)), seq[Len(seq)])

(* Lines 918-920. *)
DefaultBase(base, dflt) == IF base = Absent THEN dflt ELSE base

(* The same without the exclusion of base. *)
CandidatesKeepBase(bs, base) ==
    SelectSeq(bs, LAMBDA b : b.meta # "raises")

(* Lines 940-967: the branches other than base whose commit can be read. *)
Candidates(bs, base) ==
    SelectSeq(bs, LAMBDA b : b.name # base /\ b.meta # "raises")

(* Line 985 compares a timezone-aware commit date with the naive            *)
(* datetime.now() when the library's dates are aware: a TypeError.          *)
MixedDates(cs) ==
    /\ \E i \in DOMAIN cs : cs[i].meta = "ok"
    /\ \E i \in DOMAIN cs : cs[i].meta = "no_date"

(* Lines 924-988: head is the first of the candidates sorted by date,      *)
(* newest first (reverse=True keeps the order of equal keys).              *)
DefaultHead(bs, base, t, aware) ==
    IF bs = <<>> THEN [status |-> "no_branches", head |-> Absent]
    ELSE LET cs == Candidates(bs, base)
             keyed == [i \in DOMAIN cs |->
                         [name |-> cs[i].name, key |-> <<0, 0 - PushedAt(cs[i], t)>>]]
         IN  IF cs = <<>> THEN [status |-> "no_candidate", head |-> Absent]
             ELSE IF aware /\ MixedDates(cs)
             THEN [status |-> "exception", head |-> Absent]
             ELSE [status |-> "ok", head |-> Sort(keyed)[1].name]

(* The same without the exclusion of head from the branches looked at. *)
OtherBaseKeepsHead(bs, head, dflt, t) ==
    LET keyed == [i \in DOMAIN bs |->
                    [name |-> bs[i].name,
                     key |-> <<IF bs[i].name = dflt THEN 1 ELSE 0,
                               0 - PushedAt(bs[i], t)>>]]
    IN  IF bs = <<>> THEN [status |-> "only_branch", base |-> head]
        ELSE [status |-> "ok", base |-> Sort(keyed)[1].name]

(* Lines 990-1040: base is the first of the branches other than head,      *)
(* sorted by (is_default, -timestamp).                                     *)
OtherBase(bs, head, dflt, t) ==
    LET others == SelectSeq(bs, LAMBDA b : b.name # head)
        keyed == [i \in DOMAIN others |->
                    [name |-> others[i].name,
                     key |-> <<IF others[i].name = dflt THEN 1 ELSE 0,
                               0 - PushedAt(others[i], t)>>]]
    IN  IF others = <<>> THEN [status |-> "only_branch", base |-> head]
        ELSE [status |-> "ok", base |-> Sort(keyed)[1].name]

(* Lines 918-1040: the resolved (head, base), or the error returned. *)
Resolve(args, bs, dflt, t, fault, aware) ==
    LET base == DefaultBase(args.base, dflt)
        h == IF args.head # Absent THEN [status |-> "ok", head |-> args.head]
             ELSE IF fault = "get_branches"
             THEN [status |-> "exception", head |-> Absent]
             ELSE DefaultHead(bs, base, t, aware)
        b == IF h.head # base THEN [status |-> "ok", base |-> base]
             ELSE IF fault = "get_branches"
             THEN [status |-> "exception", base |-> base]
             ELSE OtherBase(bs, h.head, dflt, t)
    IN  IF h.status # "ok" THEN [status |-> h.status, head |-> Absent, base |-> base]
        ELSE [status |-> b.status, head |-> h.head, base |-> b.base]

(* strftime('%Y-%m-%d') and strftime('%H%M%S') of datetime.now(), for a    *)
(* clock within January of the epoch year.                                 *)
EPOCH_YEAR == 1970
DigitChars == <<"0", "1", "2", "3", "4", "5", "6", "7", "8", "9">>
Digit(d) == DigitChars[d + 1]
Pad2(n) == <<Digit((n \div 10) % 10), Digit(n % 10)>>
Pad4(n) == Pad2(n \div 100) \o Pad2(n % 100)
DateStr(t) ==
    Pad4(EPOCH_YEAR) \o <<"-">> \o Pad2(1) \o <<"-">> \o Pad2(1 + t \div SECONDS_PER_DAY)
TimeStr(t) ==
    LET s == t % SECONDS_PER_DAY
    IN  Pad2(s \div 3600) \o Pad2((s \div 60) % 60) \o Pad2(s % 60)

(* Line 1082. *)
NewBranchName(t) == <<"c", "3", "/">> \o DateStr(t) \o <<"/">> \o TimeStr(t)

(* Line 1097: the name with random.randint(10, 99) appended. *)
RetryBranchName(t, nn) == NewBranchName(t) \o Pad2(nn)

(* The pull requests repository.get_pulls(state='open') returns. *)
OpenPulls(ps) == SelectSeq(ps, LAMBDA q : q.state = "open")

(* The same comparing the heads only. *)
SamePairHeadOnly(q, head, base) == q.head = head

(* Line 1076. *)
SamePair(q, head, base) == q.head = head /\ q.base = base

(* repository.create_git_ref: 422 when the name is taken. *)
CreateRefStatus(bs, name, denied) ==
    IF denied THEN 403 ELSE IF HasBranch(bs, name) THEN 422 ELSE 201

RefCall(name, sha, status) ==
    [op |-> "create_git_ref", ref |-> name, base |-> Absent, sha |-> sha,
     status |-> status, read |-> 0]

(* The same retrying after any failure. *)
RetryOnAnyFailure(status) == status # 201

(* Line 1096: the second create_git_ref is made after a 422 only. *)
RetryOn(status) == status = 422

(* Lines 1059-1111: with an open pull request of the same head and base, a  *)
(* branch named after the time is created at head's commit and becomes the  *)
(* head; any exception on the way is swallowed and head stays.              *)
AvoidCollision(bs, ps, head, base, t, nn, fault) ==
    LET keep == [head |-> head, created |-> FALSE, branches |-> bs, log |-> <<>>]
    IN  IF fault \in {"get_branch_head", "get_pulls"} \/ ~HasBranch(bs, head)
        THEN keep
        ELSE IF ~\E i \in DOMAIN OpenPulls(ps) : SamePair(OpenPulls(ps)[i], head, base)
        THEN keep
        ELSE LET sha == BranchSha(bs, head)
                 meta == BranchMeta(bs, head)
                 name1 == NewBranchName(t)
                 st1 == CreateRefStatus(bs, name1, fault = "create_ref")
                 name2 == RetryBranchName(t, nn)
                 st2 == CreateRefStatus(bs, name2, fault = "create_ref_retry")
             IN  IF st1 = 201
                 THEN [head |-> name1, created |-> TRUE,
                       branches |-> Append(bs, Branch(name1, sha, meta)),
                       log |-> <<RefCall(name1, sha, st1)>>]
                 ELSE IF ~RetryOn(st1)
                 THEN [keep EXCEPT !.log = <<RefCall(name1, sha, st1)>>]
                 ELSE IF st2 = 201
                 THEN [head |-> name2, created |-> TRUE,
                       branches |-> Append(bs, Branch(name2, sha, meta)),
                       log |-> <<RefCall(name1, sha, st1), RefCall(name2, sha, st2)>>]
                 ELSE [keep EXCEPT !.log =
                         <<RefCall(name1, sha, st1), RefCall(name2, sha, st2)>>]

(* Lines 1156-1157: the shas of the first SAMPLE commits of a history. *)
SAMPLE == 10
Sample(history) ==
    {history[i] : i \in {j \in DOMAIN history : j <= SAMPLE}}

(* The same with the subset test of line 1160 the other way round. *)
NoNewCommitsReversed(head_sha, base_sha) ==
    LET head_commits == History(head_sha)
        base_commit_shas == Sample(History(base_sha))
        head_only_commits ==
            SelectSeq(head_commits, LAMBDA c : c \notin base_commit_shas)
    IN  /\ base_commit_shas \subseteq Sample(head_commits)
        /\ head_sha # base_sha
        /\ head_only_commits = <<>>

(* Lines 1150-1183: TRUE when the invocation returns "no new commits". *)
NoNewCommits(head_sha, base_sha) ==
    LET head_commits == History(head_sha)
        base_commit_shas == Sample(History(base_sha))
        head_only_commits ==
            SelectSeq(head_commits, LAMBDA c : c \notin base_commit_shas)
    IN  /\ Sample(head_commits) \subseteq base_commit_shas
        /\ head_sha # base_sha
        /\ head_only_commits = <<>>

(* GitHub's answer to repository.create_pull: 422 for a head or base that  *)
(* does not exist, for an open pull request of the same head and base, and  *)
(* for a head with no commit that base lacks.                               *)
CreatePullStatus(bs, ps, head, base, failing) ==
    IF failing THEN 500
    ELSE IF ~HasBranch(bs, head) \/ ~HasBranch(bs, base) THEN 422
    ELSE IF \E i \in DOMAIN ps : ps[i].state = "open" /\ SamePair(ps[i], head, base)
    THEN 422
    ELSE IF Range(History(BranchSha(bs, head))) \subseteq
              Range(History(BranchSha(bs, base)))
    THEN 422
    ELSE 201

PullCall(head, base, status) ==
    [op |-> "create_pull", ref |-> head, base |-> base, sha |-> 0,
     status |-> status, read |-> 0]

(* Lines 1152-1153: list(repository.get_commits(sha=...)) fetches every    *)
(* commit of the history before lines 1156-1157 slice it.                   *)
CommitsCall(sha) ==
    [op |-> "get_commits", ref |-> Absent, base |-> Absent, sha |-> sha,
     status |-> 200, read |-> Len(History(sha))]

Failure(kind, r) ==
    [NoResult EXCEPT !.error = kind,
                     !.resolved_head = r.head, !.resolved_base = r.base]

(* The same reporting the head in use as the original head. *)
SuccessReportsNewHead(r, head, base, created) ==
    [success |-> TRUE, error |-> "", head |-> head, base |-> base,
     resolved_head |-> r.head, resolved_base |-> r.base,
     reports_new_branch |-> created,
     new_branch |-> IF created THEN head ELSE Absent,
     original_head |-> IF created THEN head ELSE Absent]

(* Lines 1196-1218. *)
Success(r, head, base, created) ==
    [success |-> TRUE, error |-> "", head |-> head, base |-> base,
     resolved_head |-> r.head, resolved_base |-> r.base,
     reports_new_branch |-> created,
     new_branch |-> IF created THEN head ELSE Absent,
     original_head |-> IF created THEN r.head ELSE Absent]

(* The same comparing the names of the branches. *)
SameCommitByName(bs, head, base) == head = base

(* Line 1132: head_branch.commit.sha == base_branch.commit.sha. *)
SameCommit(bs, head, base) == BranchSha(bs, head) = BranchSha(bs, base)

(* Lines 1113-1227 after resolution r and collision avoidance a: the      *)
(* result, the remote calls made and the repository left behind.           *)
SubmitResolved(r, a, ps, fault) ==
    LET after == [result |-> NoResult, log |-> a.log,
                  branches |-> a.branches, pulls |-> ps]
    IN  IF fault = "get_branch_head_again" \/ ~HasBranch(a.branches, a.head)
        THEN [after EXCEPT !.result = Failure("head_missing", r)]
        ELSE IF SameCommit(a.branches, a.head, r.base)
        THEN [after EXCEPT !.result = Failure("no_differences", r)]
        ELSE
        LET read == IF fault = "get_commits" THEN <<>>
                    ELSE <<CommitsCall(BranchSha(a.branches, a.head)),
                           CommitsCall(BranchSha(a.branches, r.base))>>
            st == CreatePullStatus(a.branches, ps, a.head, r.base,
                                   fault = "create_pull")
            call == PullCall(a.head, r.base, st)
        IN  IF fault # "get_commits"
               /\ NoNewCommits(BranchSha(a.branches, a.head),
                               BranchSha(a.branches, r.base))
            THEN [after EXCEPT !.result = Failure("no_new_commits", r),
                               !.log = a.log \o read]
            ELSE IF st = 201
            THEN [result |-> Success(r, a.head, r.base, a.created),
                  log |-> Append(a.log \o read, call),
                  branches |-> a.branches,
                  pulls |-> Append(ps, [head |-> a.head, base |-> r.base,
                                        state |-> "open"])]
            ELSE [after EXCEPT !.result = Failure("github_error", r),
                               !.log = Append(a.log \o read, call)]

(* Lines 1042-1227 after resolution r. *)
Submit(r, bs, ps, t, nn, fault) ==
    IF fault = "get_branch_base" \/ ~HasBranch(bs, r.base)
    THEN [result |-> Failure("base_missing", r), log |-> <<>>,
          branches |-> bs, pulls |-> ps]
    ELSE SubmitResolved(r, AvoidCollision(bs, ps, r.head, r.base, t, nn, fault),
                        ps, fault)

(* Lines 916-1227 once head and base are resolved, or not. *)
SubmitOrFail(r, bs, ps, t, nn, fault) ==
    IF r.status # "ok"
    THEN [result |-> Failure(r.status, r), log |-> <<>>,
          branches |-> bs, pulls |-> ps]
    ELSE Submit(r, bs, ps, t, nn, fault)

(* create_pull_request(owner, repo, title, head, base) at time t, the      *)
(* client being available.                                                 *)
CreatePullRequest(args, bs, ps, dflt, t, nn, fault, aware) ==
    IF fault = "get_repo"
    THEN [result |-> Failure("github_error", [head |-> Absent, base |-> Absent]),
          log |-> <<>>, branches |-> bs, pulls |-> ps]
    ELSE SubmitOrFail(Resolve(args, bs, dflt, t, fault, aware),
                      bs, ps, t, nn, fault)

----------------------------------------------------------------------------
(* The server handling create_pull_request calls on one repository. *)

MaxInvocations == 1
START == 47109

(* What the world outside does during one invocation: the remote call      *)
(* that fails ("none": no call fails; "client": the token endpoint fails),  *)
(* the number random.randint(10, 99) draws, and whether the library's       *)
(* commit dates are timezone-aware.                                        *)
Faults ==
    {"none", "client", "get_repo", "get_branches", "get_branch_base",
     "get_branch_head", "get_pulls", "create_ref", "create_ref_retry",
     "get_branch_head_again", "get_commits", "create_pull"}

Envs ==
    {Env(f, 10, FALSE) : f \in Faults} \cup {Env("none", 99, FALSE), Env("none", 10, TRUE)}

ArgNames == {Absent, Main, Dev}

(* The repositories a run starts on: no branch, main alone, main and dev,   *)
(* or main, dev and feat, in some order.  main points at commit 3; the last *)
(* branch added may have a commit whose date cannot be read.               *)
Metas == {"ok", "no_date", "raises"}

Repositories ==
    { <<>>, <<Branch(Main, 3, "ok")>> }
    \cup { <<Branch(Main, 3, "ok"), Branch(Dev, d, m)>> : d \in {2, 3, 4}, m \in Metas }
    \cup UNION { { <<Branch(Main, 3, "ok"), Branch(Dev, t[1], "ok"), Branch(Feat, t[2], m)>>,
                   <<Branch(Main, 3, "ok"), Branch(Feat, t[2], m), Branch(Dev, t[1], "ok")>>,
                   <<Branch(Dev, t[1], "ok"), Branch(Feat, t[2], m), Branch(Main, 3, "ok")>> } :
                 t \in { <<2, 4>>, <<4, 5>>, <<5, 2>> }, m \in Metas }

(* Repositories whose dev and feat have histories longer than SAMPLE. *)
DeepRepositories ==
    { <<Branch(Main, 3, "ok"), Branch(Dev, t[1], "ok"), Branch(Feat, t[2], "ok")>> :
        t \in { <<13, 14>>, <<14, 13>>, <<5, 14>> } }

(* The pull requests there are at the start. *)
InitialPulls ==
    { <<>>,
      <<[head |-> Dev, base |-> Main, state |-> "open"]>>,
      <<[head |-> Dev, base |-> Main, state |-> "closed"],
        [head |-> Dev, base |-> Feat, state |-> "open"],
        [head |-> Feat, base |-> Main, state |-> "open"]>> }

(* Branches an earlier invocation has created within the current second. *)
EarlierBranches ==
    { <<>>,
      <<Branch(NewBranchName(START), 4, "ok")>>,
      <<Branch(NewBranchName(START), 4, "ok"),
        Branch(RetryBranchName(START, 10), 4, "ok")>> }

(* Earlier branches exist only beside the open pull request they were     *)
(* created for.                                                           *)
Worlds ==
    { [branches |-> bs, pulls |-> ps] :
        bs \in Repositories \cup DeepRepositories, ps \in InitialPulls }
    \cup { [branches |-> bs \o cs,
            pulls |-> <<[head |-> Dev, base |-> Main, state |-> "open"]>>] :
           bs \in {b \in Repositories : HasBranch(b, Dev)},
           cs \in EarlierBranches \ {<<>>} }

PRInit ==
    /\ now = START
    /\ private_key = "PEM"
    /\ private_key_path = ""
    /\ _installation_token = None
    /\ _token_expires_at = None
    /\ github = None
    /\ requests = 0
    /\ recorded = <<>>
    /\ calls = <<>>
    /\ api = <<>>
    /\ ConcIdle
    /\ default_branch = Main
    /\ \E w \in Worlds : branches = w.branches /\ pulls = w.pulls
    /\ invocations = 0
    /\ pr_args = [head |-> Absent, base |-> Absent]
    /\ pr_env = Env("none", 10, FALSE)
    /\ pr_result = NoResult
    /\ remote_log = <<>>
    /\ NoBranchCall
    /\ NoInput
    /\ NoFiles

(* tools/call create_pull_request: line 915 gets the client, then the      *)
(* resolution and the submission.                                          *)
CreatePullRequestCall ==
    /\ invocations < MaxInvocations
    /\ \E head \in ArgNames, base \in ArgNames, env \in Envs :
         LET r == IF env.fault = "client"
                  THEN [status |-> 500, token |-> None,
                        expires_at |-> Expiry("absent", 0)]
                  ELSE [status |-> 201, token |-> NextToken,
                        expires_at |-> Expiry("iso", now + TOKEN_LIFETIME)]
             c == GetGithubClient(github, _installation_token, _token_expires_at,
                                  now, private_key, private_key_path, r)
             args == [head |-> head, base |-> base]
             out == IF c.raised
                    THEN [result |-> Failure("client", args), log |-> <<>>,
                          branches |-> branches, pulls |-> pulls]
                    ELSE CreatePullRequest(args, branches, pulls, default_branch,
                                           now, env.nn, env.fault, env.aware)
         IN  \E o \in {out} :
             /\ github' = c.github
             /\ _installation_token' = c.token
             /\ _token_expires_at' = c.expires
             /\ requests' = requests + c.sent
             /\ recorded' = IF c.calls = <<>> THEN recorded
                                              ELSE Issue(recorded, r, c)
             /\ calls' = c.calls
             /\ api' = <<>>
             /\ pr_args' = args
             /\ pr_env' = env
             /\ pr_result' = o.result
             /\ remote_log' = o.log
             /\ branches' = o.branches
             /\ pulls' = o.pulls
    /\ invocations' = invocations + 1
    /\ UNCHANGED <<now, private_key, private_key_path, default_branch>>
    /\ UNCHANGED <<concVars, branchVars, loopVars, fileVars>>

PRNext == CreatePullRequestCall

SpecPR == PRInit /\ [][PRNext]_vars

----------------------------------------------------------------------------
(* create_branch.                                                           *)

(* The characters of a branch name: \w matches "c", "3" and the non-ASCII   *)
(* letter; str.strip() removes the space.                                   *)
Alphabet == {"c", "3", "/", "-", ".", " ", "é"}
WordChars == {"c", "3", "é"}
Whitespace == {" "}
PREFIX == <<"c", "3", "/">>

StartsWith(s, p) == Len(s) >= Len(p) /\ SubSeq(s, 1, Len(p)) = p

(* The same removing at most one character from each end. *)
StripOnce(s, chars) ==
    LET a == IF s # <<>> /\ s[1] \in chars THEN 2 ELSE 1
        b == IF Len(s) >= a /\ s[Len(s)] \in chars THEN Len(s) - 1 ELSE Len(s)
    IN  SubSeq(s, a, b)

(* str.strip(chars): every leading and trailing character of chars goes. *)
RECURSIVE StripChars(_, _)
StripChars(s, chars) ==
    IF s = <<>> THEN s
    ELSE IF s[1] \in chars THEN StripChars(Tail(s), chars)
    ELSE IF s[Len(s)] \in chars THEN StripChars(SubSeq(s, 1, Len(s) - 1), chars)
    ELSE s

(* Line 677: '/' in name. *)
HasSlash(s) == \E i \in DOMAIN s : s[i] = "/"

(* The same keeping the first part, parts[0]. *)
FirstSegment(s) ==
    LET cut == CHOOSE i \in DOMAIN s : s[i] = "/" /\ \A j \in 1..(i - 1) : s[j] # "/"
    IN  SubSeq(s, 1, cut - 1)

(* Lines 680-681: name.split('/')[-1], name having a slash. *)
LastSegment(s) ==
    LET cut == CHOOSE i \in DOMAIN s : s[i] = "/" /\ \A j \in (i + 1)..Len(s) : s[j] # "/"
    IN  SubSeq(s, cut + 1, Len(s))

(* Lines 675-685. *)
AddPrefix(s) ==
    IF StartsWith(s, PREFIX) THEN s
    ELSE IF HasSlash(s) THEN PREFIX \o LastSegment(s)
    ELSE PREFIX \o s

(* The same with the dot among the characters kept. *)
ReplaceKeepsDots(s) ==
    [i \in DOMAIN s |->
        IF s[i] \in WordChars \cup {"-", "/", "."} THEN s[i] ELSE "-"]

(* Line 690: re.sub(r'[^\w\-/]', '-', name). *)
ReplaceDisallowed(s) ==
    [i \in DOMAIN s |-> IF s[i] \in WordChars \cup {"-", "/"} THEN s[i] ELSE "-"]

(* Lines 692-693: re.sub of two or more ch in a row by one. *)
RECURSIVE Collapse(_, _)
Collapse(s, ch) ==
    IF Len(s) < 2 THEN s
    ELSE IF s[1] = ch /\ s[2] = ch THEN Collapse(Tail(s), ch)
    ELSE <<s[1]>> \o Collapse(Tail(s), ch)

(* The same leaving the name as it is. *)
EnsurePrefixSkipped(s) == s

(* Lines 697-699. *)
EnsurePrefix(s) == IF StartsWith(s, PREFIX) THEN s ELSE PREFIX \o s

(* Lines 673-699: the name create_branch passes on. *)
Normalize(s) ==
    EnsurePrefix(
        StripChars(
            Collapse(Collapse(ReplaceDisallowed(AddPrefix(StripChars(s, Whitespace))),
                              "/"), "."),
            {"/", ".", "-"}))

(* Lines 701-709: the commit the branch is created at; 0 when get_branch   *)
(* raises.                                                                 *)
SourceRef(bs, dflt, source_branch, source_sha) ==
    IF source_sha # 0 THEN source_sha
    ELSE LET b == IF source_branch # Absent THEN source_branch ELSE dflt
         IN  IF HasBranch(bs, b) THEN BranchSha(bs, b) ELSE 0

BranchFailure(kind) ==
    [NoBranchResult EXCEPT !.called = TRUE, !.error = kind]

(* create_branch(owner, repo, branch_name, source_branch, source_sha), the *)
(* client being available.                                                 *)
CreateBranch(name, source_branch, source_sha, bs, dflt, fault) ==
    LET normalized == Normalize(name)
        ref == SourceRef(bs, dflt, source_branch, source_sha)
        st == CreateRefStatus(bs, normalized, fault = "create_ref")
        failed == [result |-> BranchFailure("github_error"), log |-> <<>>,
                   branches |-> bs]
    IN  IF fault = "get_repo" \/ fault = "get_branch" \/ ref = 0 THEN failed
        ELSE IF st # 201
        THEN [failed EXCEPT !.log = <<RefCall(normalized, ref, st)>>]
        ELSE [result |-> [called |-> TRUE, success |-> TRUE, error |-> "",
                          branch_name |-> normalized,
                          original_branch_name |->
                              IF name # normalized THEN name ELSE Absent],
              log |-> <<RefCall(normalized, ref, st)>>,
              branches |-> Append(bs, Branch(normalized, ref, "ok"))]

----------------------------------------------------------------------------
(* The server handling one create_branch call, for every branch name of up *)
(* to MaxLen characters.                                                   *)

MaxLen == 5

BranchNames == UNION {[1..n -> Alphabet] : n \in 0..MaxLen}

(* How the call is made and what fails: the source given as a sha, as a    *)
(* branch (dev exists, feat does not) or not at all, and the failing call. *)
BranchCalls ==
    { [source_branch |-> Absent, source_sha |-> 0, fault |-> f] :
        f \in {"none", "client", "get_repo", "get_branch", "create_ref"} }
    \cup { [source_branch |-> b, source_sha |-> 0, fault |-> "none"] : b \in {Dev, Feat} }
    \cup { [source_branch |-> Absent, source_sha |-> 2, fault |-> "none"] }

BranchInit ==
    /\ now = START
    /\ private_key = "PEM"
    /\ private_key_path = ""
    /\ _installation_token = None
    /\ _token_expires_at = None
    /\ github = None
    /\ requests = 0
    /\ recorded = <<>>
    /\ calls = <<>>
    /\ api = <<>>
    /\ ConcIdle
    /\ default_branch = Main
    /\ branches = <<Branch(Main, 3, "ok"), Branch(Dev, 2, "ok"),
                    Branch(PREFIX \o <<"c", "3">>, 2, "ok")>>
    /\ pulls = <<>>
    /\ invocations = 0
    /\ pr_args = [head |-> Absent, base |-> Absent]
    /\ pr_env = Env("none", 10, FALSE)
    /\ pr_result = NoResult
    /\ remote_log = <<>>
    /\ branch_name \in BranchNames
    /\ branch_result = NoBranchResult
    /\ NoInput
    /\ NoFiles

(* tools/call create_branch: line 669 gets the client, then the whole of   *)
(* lines 670-786.                                                          *)
CreateBranchCall ==
    /\ ~branch_result.called
    /\ \E call \in BranchCalls :
         LET r == IF call.fault = "client"
                  THEN [status |-> 500, token |-> None,
                        expires_at |-> Expiry("absent", 0)]
                  ELSE [status |-> 201, token |-> NextToken,
                        expires_at |-> Expiry("iso", now + TOKEN_LIFETIME)]
             c == GetGithubClient(github, _installation_token, _token_expires_at,
                                  now, private_key, private_key_path, r)
             out == IF c.raised
                    THEN [result |-> BranchFailure("client"), log |-> <<>>,
                          branches |-> branches]
                    ELSE CreateBranch(branch_name, call.source_branch, call.source_sha,
                                      branches, default_branch, call.fault)
         IN  \E o \in {out}, g \in {c} :
             /\ github' = g.github
             /\ _installation_token' = g.token
             /\ _token_expires_at' = g.expires
             /\ requests' = requests + g.sent
             /\ recorded' = IF g.calls = <<>> THEN recorded ELSE Issue(recorded, r, g)
             /\ calls' = g.calls
             /\ api' = <<>>
             /\ branch_result' = o.result
             /\ remote_log' = o.log
             /\ branches' = o.branches
    /\ UNCHANGED <<now, private_key, private_key_path, default_branch, pulls,
                   invocations, pr_args, pr_env, pr_result, branch_name>>
    /\ UNCHANGED <<concVars, loopVars, fileVars>>

BranchNext == CreateBranchCall

SpecBranch == BranchInit /\ [][BranchNext]_vars

----------------------------------------------------------------------------
(* create_or_update_file (lines 785-910).                                   *)

FileLogEntry(op, path, branch, sha, status) ==
    [op |-> op, path |-> path, branch |-> branch, sha |-> sha, status |-> status]

RepoBranches(tr) == {x[1] : x \in DOMAIN tr}

FileEntry(tr, b, p) == IF <<b, p>> \in DOMAIN tr THEN tr[<<b, p>>] ELSE NoEntry

(* repository.get_contents(path, ref=branch), line 798, and the .sha of    *)
(* line 799: a file gives its sha; a missing path or branch raises          *)
(* UnknownObjectException (404), a GithubException; a refusal raises one    *)
(* with another status; a directory gives a list, whose .sha raises         *)
(* AttributeError; a transport failure raises no GithubException either.    *)
GetContents(tr, b, p, fault) ==
    LET e == FileEntry(tr, b, p)
    IN  IF fault = "get_contents_timeout"
        THEN [outcome |-> "exception", sha |-> 0, status |-> 0]
        ELSE IF fault = "get_contents_denied"
        THEN [outcome |-> "github_exception", sha |-> 0, status |-> 403]
        ELSE IF e.kind = "absent"
        THEN [outcome |-> "github_exception", sha |-> 0, status |-> 404]
        ELSE IF e.kind = "dir"
        THEN [outcome |-> "exception", sha |-> 0, status |-> 200]
        ELSE [outcome |-> "file", sha |-> e.sha, status |-> 200]

(* The same with only the 404 taken for a missing file. *)
ExistenceCheckNotFoundOnly(check) ==
    IF check.outcome = "file" THEN [proceed |-> TRUE, sha |-> check.sha]
    ELSE IF check.outcome = "github_exception" /\ check.status = 404
    THEN [proceed |-> TRUE, sha |-> 0]
    ELSE [proceed |-> FALSE, sha |-> 0]

(* Lines 797-803: any GithubException of the check counts as "no file";     *)
(* another exception leaves the function through line 886.                  *)
ExistenceCheck(check) ==
    IF check.outcome = "file" THEN [proceed |-> TRUE, sha |-> check.sha]
    ELSE IF check.outcome = "github_exception" THEN [proceed |-> TRUE, sha |-> 0]
    ELSE [proceed |-> FALSE, sha |-> 0]

(* The answer of the contents API to update_file (with the blob sha) and    *)
(* to create_file (sha 0): 404 for a branch that is not there, 409 for a    *)
(* sha that is not the file's, 422 for a path that is taken.                *)
WriteStatus(tr, b, p, sha, fault) ==
    LET e == FileEntry(tr, b, p)
    IN  IF fault = "write" THEN 409
        ELSE IF b \notin RepoBranches(tr) THEN 404
        ELSE IF sha # 0
        THEN (IF e.kind = "file" /\ e.sha = sha THEN 200 ELSE 409)
        ELSE (IF e.kind = "absent" THEN 201 ELSE 422)

FileFailure(kind, b) ==
    [NoFileResult EXCEPT !.called = TRUE, !.error = kind, !.branch = b]

(* create_or_update_file(owner, repo, path, content, message, branch), the *)
(* client being available; the blob written has sha 9.                      *)
CreateOrUpdateFile(path, branch, tr, dflt, fault) ==
    LET b == IF branch = Absent THEN dflt ELSE branch
        got == GetContents(tr, b, path, fault)
        check == ExistenceCheck(got)
        action == IF check.sha # 0 THEN "updated" ELSE "created"
        op == IF check.sha # 0 THEN "update_file" ELSE "create_file"
        st == WriteStatus(tr, b, path, check.sha, fault)
        looked == <<FileLogEntry("get_contents", path, b, 0, got.status)>>
        wrote == looked \o <<FileLogEntry(op, path, b, check.sha, st)>>
    IN  IF fault = "get_repo"
        THEN [result |-> FileFailure("github_error", Absent), log |-> <<>>, tree |-> tr]
        ELSE IF ~check.proceed
        THEN [result |-> FileFailure("exception", b), log |-> looked, tree |-> tr]
        ELSE IF st >= 400
        THEN [result |-> FileFailure("github_error", b), log |-> wrote, tree |-> tr]
        ELSE [result |-> [called |-> TRUE, success |-> TRUE, action |-> action,
                          error |-> "", branch |-> b],
              log |-> wrote,
              tree |-> [tr EXCEPT ![<<b, path>>] = [kind |-> "file", sha |-> 9]]]

----------------------------------------------------------------------------
(* The server handling one create_or_update_file call on a repository of    *)
(* two branches and two paths.                                              *)

Paths == {"README.md", "docs"}

Entries == {NoEntry, [kind |-> "file", sha |-> 7], [kind |-> "dir", sha |-> 0]}

Trees == [{Main, Dev} \X Paths -> Entries]

FileFaults ==
    {"none", "client", "get_repo", "get_contents_denied", "get_contents_timeout",
     "write"}

FileInit ==
    /\ now = START
    /\ private_key = "PEM"
    /\ private_key_path = ""
    /\ _installation_token = None
    /\ _token_expires_at = None
    /\ github = None
    /\ requests = 0
    /\ recorded = <<>>
    /\ calls = <<>>
    /\ api = <<>>
    /\ ConcIdle
    /\ default_branch = Main
    /\ branches = <<Branch(Main, 3, "ok"), Branch(Dev, 2, "ok")>>
    /\ pulls = <<>>
    /\ invocations = 0
    /\ pr_args = [head |-> Absent, base |-> Absent]
    /\ pr_env = Env("none", 10, FALSE)
    /\ pr_result = NoResult
    /\ remote_log = <<>>
    /\ NoBranchCall
    /\ NoInput
    /\ tree \in Trees
    /\ NoFileCall

(* tools/call create_or_update_file: line 790 gets the client, then the    *)
(* whole of lines 791-910.                                                  *)
CreateOrUpdateFileCall ==
    /\ ~file_result.called
    /\ \E path \in Paths, branch \in {Absent, Main, Dev, Feat}, fault \in FileFaults :
         LET r == IF fault = "client"
                  THEN [status |-> 500, token |-> None,
                        expires_at |-> Expiry("absent", 0)]
                  ELSE [status |-> 201, token |-> NextToken,
                        expires_at |-> Expiry("iso", now + TOKEN_LIFETIME)]
             c == GetGithubClient(github, _installation_token, _token_expires_at,
                                  now, private_key, private_key_path, r)
             b == IF branch = Absent THEN default_branch ELSE branch
             out == IF c.raised
                    THEN [result |-> FileFailure("client", Absent), log |-> <<>>,
                          tree |-> tree]
                    ELSE CreateOrUpdateFile(path, branch, tree, default_branch, fault)
         IN  \E o \in {out}, g \in {c} :
             /\ github' = g.github
             /\ _installation_token' = g.token
             /\ _token_expires_at' = g.expires
             /\ requests' = requests + g.sent
             /\ recorded' = IF g.calls = <<>> THEN recorded ELSE Issue(recorded, r, g)
             /\ calls' = g.calls
             /\ api' = <<>>
             /\ file_args' = [path |-> path, branch |-> branch]
             /\ file_env' = [fault |-> fault, entry |-> FileEntry(tree, b, path)]
             /\ file_result' = o.result
             /\ file_log' = o.log
             /\ tree' = o.tree
    /\ UNCHANGED <<now, private_key, private_key_path>>
    /\ UNCHANGED <<concVars, prVars, branchVars, loopVars>>

FileNext == CreateOrUpdateFileCall

SpecFile == FileInit /\ [][FileNext]_vars

----------------------------------------------------------------------------
(* The JSON-RPC loop of main and the dispatch of handle_tools_call.         *)

(* handle_tools_list: the names of the tools listed, in order. *)
ToolList ==
    <<"read_file", "create_branch", "create_or_update_file", "create_pull_request",
      "list_branches", "get_repository", "list_pull_requests", "get_pull_request",
      "list_repositories", "get_help">>

(* The same without the last branch of the chain. *)
HandledNamesButLast ==
    {"get_help", "read_file", "create_branch", "create_or_update_file",
     "create_pull_request", "list_branches", "get_repository",
     "list_pull_requests", "get_pull_request"}

(* handle_tools_call: the names the if/elif chain compares with. *)
HandledNames ==
    {"get_help", "read_file", "create_branch", "create_or_update_file",
     "create_pull_request", "list_branches", "get_repository",
     "list_pull_requests", "get_pull_request", "list_repositories"}

(* What a result holds: its shape ("content": {content: [{type, text}]}),   *)
(* whether the embedded JSON has the key success and its value, and which   *)
(* of the keys error, error_type and status it has.                         *)
Shape(shape, has_success, success, fields) ==
    [shape |-> shape, has_success |-> has_success, success |-> success,
     fields |-> fields, tools |-> <<>>]

Succeeded == Shape("content", TRUE, TRUE, {})

(* The except GithubException handler of a tool. *)
GithubError == Shape("content", TRUE, FALSE, {"error", "error_type", "status"})

(* The except Exception handler of a tool. *)
OtherError == Shape("content", TRUE, FALSE, {"error", "error_type"})

(* A failure a tool returns by itself. *)
PlainFailure == Shape("content", TRUE, FALSE, {"error"})

(* Lines 479-482: {"error": ...}. *)
BareError == Shape("bare_error", FALSE, FALSE, {"error"})

(* The result create_pull_request returns, by the way it ended. *)
PullRequestShape(result) ==
    IF result.success THEN Succeeded
    ELSE IF result.error \in {"github_error", "base_missing", "head_missing"}
    THEN GithubError
    ELSE IF result.error \in {"client", "exception"} THEN OtherError
    ELSE PlainFailure

(* The result create_branch returns. *)
BranchShape(result) ==
    IF result.success THEN Succeeded
    ELSE IF result.error = "github_error" THEN GithubError
    ELSE OtherError

(* The result create_or_update_file returns. *)
FileShape(result) ==
    IF result.success THEN Succeeded
    ELSE IF result.error = "github_error" THEN GithubError
    ELSE OtherError

(* A line of standard input: text that is no JSON, JSON that is no object   *)
(* (an array, a number), or a request object; params and arguments are      *)
(* "absent", "null" or "object"; complete says the required arguments of    *)
(* the tool are there.                                                      *)
Request(method, params, name, arguments) ==
    [json |-> "object", has_id |-> TRUE, method |-> method, params |-> params,
     name |-> name, arguments |-> arguments, complete |-> TRUE]

Text(json) == [Request("", "absent", "", "absent") EXCEPT !.json = json]

Lines ==
    { Text("invalid"), Text("array"), Text("number") }
    \cup { Request("initialize", p, "", "absent") : p \in {"object", "null"} }
    \cup { Request("tools/list", "absent", "", "absent"),
           [Request("tools/list", "absent", "", "absent") EXCEPT !.has_id = FALSE],
           Request("resources/list", "absent", "", "absent"),
           Request("tools/call", "null", "", "absent"),
           Request("tools/call", "object", "read_file", "null"),
           Request("tools/call", "object", "get_help", "null"),
           [Request("tools/call", "object", "create_branch", "object")
               EXCEPT !.complete = FALSE] }
    \cup { Request("tools/call", "object", n, "object") :
             n \in Range(ToolList) \cup {"delete_repository"} }

(* The branch of handle_tools_call a request takes: the name of the tool,   *)
(* "" for the else branch and for a request that does not get there.        *)
Dispatched(line) ==
    IF /\ line.json = "object"
       /\ line.method = "tools/call"
       /\ line.params = "object"
       /\ line.name \in HandledNames
    THEN line.name ELSE ""

(* The tool called: arguments.get raises on a null arguments before the     *)
(* tool is called; get_help takes no argument.                              *)
Called(line) ==
    IF Dispatched(line) = "get_help" \/ line.arguments # "null"
    THEN Dispatched(line) ELSE ""

(* The token calls of a tool: none for get_help, the client for the        *)
(* others, and for list_repositories without owner a token of its own.      *)
TokenUse(tool, gh, tok, exp, t, key, path, r, rec) ==
    LET c == GetGithubClient(gh, tok, exp, t, key, path, r)
        d == GetInstallationToken(c.token, c.expires, t, key, path, r)
        direct == tool = "list_repositories" /\ ~c.raised
    IN  IF tool \in {"", "get_help"}
        THEN [github |-> gh, token |-> tok, expires |-> exp, sent |-> 0,
              calls |-> <<>>, recorded |-> rec, raised |-> FALSE, failed |-> FALSE]
        ELSE [github |-> c.github,
              token |-> IF direct THEN d.token ELSE c.token,
              expires |-> IF direct THEN d.expires ELSE c.expires,
              sent |-> c.sent + (IF direct THEN d.sent ELSE 0),
              calls |-> c.calls \o
                  (IF direct THEN <<CallRecord(c.token, c.expires, t, r, d)>> ELSE <<>>),
              recorded |-> IF c.calls # <<>> THEN Issue(rec, r, c)
                           ELSE IF direct THEN Issue(rec, r, d) ELSE rec,
              raised |-> c.raised,
              failed |-> c.raised \/ (direct /\ d.raised)]

(* What the tool called returns and leaves of the repository, the client    *)
(* being there; remote_ok says the remote calls of the tool succeed.        *)
ToolOutcome(tool, complete, failed, remote_ok, bs, ps, dflt, t) ==
    LET same == [branches |-> bs, pulls |-> ps, log |-> <<>>]
        fault == IF remote_ok THEN "none" ELSE "get_repo"
    IN  IF tool = "create_pull_request"
        THEN LET o == CreatePullRequest([head |-> Absent, base |-> Absent],
                                        bs, ps, dflt, t, 10, fault, FALSE)
             IN  [shape |-> PullRequestShape(o.result), result |-> o.result,
                  branches |-> o.branches, pulls |-> o.pulls, log |-> o.log]
        ELSE IF tool = "create_branch"
        THEN LET o == IF ~complete /\ remote_ok
                      THEN [result |-> BranchFailure("exception"), log |-> <<>>,
                            branches |-> bs]
                      ELSE CreateBranch(<<"é">>, Absent, 0, bs, dflt, fault)
             IN  [shape |-> BranchShape(o.result), result |-> o.result,
                  branches |-> o.branches, pulls |-> ps, log |-> o.log]
        ELSE [shape |-> IF tool = "list_repositories"
                        THEN (IF failed \/ ~remote_ok THEN PlainFailure ELSE Succeeded)
                        ELSE (IF remote_ok THEN Succeeded ELSE GithubError),
              result |-> NoResult] @@ same

(* handle_tools_call(name, arguments), shape being what the tool returns. *)
HandleToolsCall(name, arguments, shape) ==
    IF name = "get_help" THEN Succeeded
    ELSE IF name \in HandledNames
    THEN (IF arguments = "null" THEN BareError ELSE shape)
    ELSE BareError

(* A line of standard output. *)
Response(k, line, top, code, result, tool) ==
    [line |-> k, id |-> IF line.has_id THEN k ELSE None, top |-> top,
     code |-> code, method |-> line.method, name |-> line.name,
     result |-> result, dispatched |-> tool]

INTERNAL_ERROR == 0 - 32603

(* One pass of the while loop of main on line k: what is printed, if       *)
(* anything, and whether the loop goes on.  A line that is JSON but no      *)
(* object raises AttributeError at request.get, and again inside the        *)
(* handler of the first, at request.get("id"): that one leaves the loop.    *)
Serve(k, line, tool, shape) ==
    IF line.json = "invalid" THEN [out |-> <<>>, server |-> "running"]
    ELSE IF line.json # "object" THEN [out |-> <<>>, server |-> "crashed"]
    ELSE IF line.method = "initialize"
    THEN [out |-> <<Response(k, line, "result", 0,
                             Shape("initialize", FALSE, FALSE, {}), tool)>>,
          server |-> "running"]
    ELSE IF line.method = "tools/list"
    THEN [out |-> <<Response(k, line, "result", 0,
                             [Shape("tools", FALSE, FALSE, {}) EXCEPT !.tools = ToolList],
                             tool)>>,
          server |-> "running"]
    ELSE IF line.method = "tools/call"
    THEN IF line.params = "null"
         THEN [out |-> <<Response(k, line, "error", INTERNAL_ERROR,
                                  Shape("none", FALSE, FALSE, {}), tool)>>,
               server |-> "running"]
         ELSE [out |-> <<Response(k, line, "result", 0,
                                  HandleToolsCall(line.name, line.arguments, shape),
                                  tool)>>,
               server |-> "running"]
    ELSE [out |-> <<Response(k, line, "result", 0,
                             Shape("unknown_method", FALSE, FALSE, {"error"}), tool)>>,
          server |-> "running"]

----------------------------------------------------------------------------
(* The server reading up to MaxLines lines of standard input. *)

MaxLines == 2

Inputs == UNION {[1..n -> Lines] : n \in 0..MaxLines}

LoopInit ==
    /\ now = START
    /\ private_key \in {"", "PEM"}
    /\ private_key_path \in {"", "readable", "missing"}
    /\ _installation_token = None
    /\ _token_expires_at = None
    /\ github = None
    /\ requests = 0
    /\ recorded = <<>>
    /\ calls = <<>>
    /\ api = <<>>
    /\ ConcIdle
    /\ default_branch = Main
    /\ branches = <<Branch(Main, 3, "ok"), Branch(Dev, 4, "ok")>>
    /\ pulls = <<>>
    /\ invocations = 0
    /\ pr_args = [head |-> Absent, base |-> Absent]
    /\ pr_env = Env("none", 10, FALSE)
    /\ pr_result = NoResult
    /\ remote_log = <<>>
    /\ NoBranchCall
    /\ stdin \in Inputs
    /\ served = 0
    /\ stdout = <<>>
    /\ server = "running"
    /\ NoFiles

(* readline returns a line: the body of the while loop, the tool called    *)
(* included.                                                               *)
ReadLine ==
    /\ server = "running"
    /\ served < Len(stdin)
    /\ served' = served + 1
    /\ \E token_ok \in BOOLEAN, remote_ok \in BOOLEAN :
         LET line == stdin[served + 1]
             tool == Called(line)
             r == IF token_ok
                  THEN [status |-> 201, token |-> NextToken,
                        expires_at |-> Expiry("iso", now + TOKEN_LIFETIME)]
                  ELSE [status |-> 500, token |-> None,
                        expires_at |-> Expiry("absent", 0)]
             use == TokenUse(tool, github, _installation_token, _token_expires_at,
                             now, private_key, private_key_path, r, recorded)
         IN  \E u \in {use} :
             \E o \in {IF u.raised
                       THEN [shape |-> OtherError, result |-> NoResult,
                             branches |-> branches, pulls |-> pulls, log |-> <<>>]
                       ELSE ToolOutcome(tool, line.complete, u.failed, remote_ok,
                                        branches, pulls, default_branch, now)} :
             \E f \in {IF tool # "create_or_update_file"
                       THEN [result |-> file_result, log |-> file_log, tree |-> tree]
                       ELSE IF u.raised
                       THEN [result |-> FileFailure("client", Absent), log |-> <<>>,
                             tree |-> tree]
                       ELSE CreateOrUpdateFile("README.md", Absent, tree, default_branch,
                                               IF remote_ok THEN "none" ELSE "get_repo")} :
             \E a \in {Serve(served + 1, line, Dispatched(line),
                             IF tool = "create_or_update_file"
                             THEN FileShape(f.result) ELSE o.shape)} :
                /\ file_result' = f.result
                /\ file_log' = f.log
                /\ tree' = f.tree
                /\ github' = u.github
                /\ _installation_token' = u.token
                /\ _token_expires_at' = u.expires
                /\ requests' = requests + u.sent
                /\ recorded' = u.recorded
                /\ calls' = u.calls
                /\ api' = <<>>
                /\ branches' = o.branches
                /\ pulls' = o.pulls
                /\ remote_log' = o.log
                /\ invocations' = IF tool = "create_pull_request"
                                  THEN invocations + 1 ELSE invocations
                /\ pr_result' = IF tool = "create_pull_request"
                                THEN (IF u.raised
                                      THEN Failure("client", pr_args) ELSE o.result)
                                ELSE pr_result
                /\ pr_env' = IF tool = "create_pull_request"
                             THEN Env(IF u.raised THEN "client"
                                      ELSE IF remote_ok THEN "none" ELSE "get_repo",
                                      10, FALSE)
                             ELSE pr_env
                /\ branch_result' = IF tool = "create_branch" /\ ~u.raised
                                    THEN o.result ELSE branch_result
                /\ branch_name' = IF tool = "create_branch" /\ line.complete
                                  THEN <<"é">> ELSE branch_name
                /\ stdout' = stdout \o a.out
                /\ server' = a.server
    /\ UNCHANGED <<now, private_key, private_key_path, default_branch, pr_args,
                   stdin, file_args, file_env>>
    /\ UNCHANGED concVars

(* readline returns the empty string: break. *)
EndOfInput ==
    /\ server = "running"
    /\ served = Len(stdin)
    /\ server' = "ended"
    /\ UNCHANGED <<stdin, served, stdout>>
    /\ UNCHANGED <<tokenVars, concVars, prVars, branchVars, fileVars>>

LoopNext == ReadLine \/ EndOfInput

SpecLoop == LoopInit /\ [][LoopNext]_vars

----------------------------------------------------------------------------
(* Properties of the token cache. *)

InWindow(call) ==
    /\ call.pre_token # None
    /\ call.pre_expires # None
    /\ call.at < call.pre_expires - REFRESH_MARGIN

CallIndices == DOMAIN calls

(* C1: every GitHub API call of a tool invocation is made with a token     *)
(* whose recorded expiry is at least 60 seconds after the time of the call. *)
C1_ApiTokenNotNearExpiry ==
    \A i \in DOMAIN api : recorded[api[i].token] - api[i].at >= REFRESH_MARGIN

(* C2: a _get_installation_token call made inside the freshness window of   *)
(* the cached token returns exactly the cached token, sends no request and  *)
(* leaves the cached token and expiry unchanged; of two consecutive calls   *)
(* the second, when inside the window, returns what the first left cached.  *)
C2_HitReturnsCachedUnchanged ==
    /\ \A i \in CallIndices :
          InWindow(calls[i]) =>
            /\ ~calls[i].raised
            /\ calls[i].ret = calls[i].pre_token
            /\ calls[i].sent = 0
            /\ calls[i].post_token = calls[i].pre_token
            /\ calls[i].post_expires = calls[i].pre_expires
    /\ \A i \in CallIndices :
          (i + 1 \in CallIndices /\ ~calls[i].raised /\ InWindow(calls[i + 1])) =>
            /\ calls[i + 1].ret = calls[i].ret
            /\ calls[i + 1].sent = 0

(* A call that finds a fresh token minted by an earlier invocation, one    *)
(* request having been sent in all.                                        *)
C2_Witness ==
    /\ \E i \in CallIndices :
          InWindow(calls[i]) /\ calls[i].at > 0 /\ calls[i].ret = calls[i].pre_token
    /\ requests = 1

(* C3 as stated: a call outside the window (or with nothing cached) sends   *)
(* exactly one request; on success it returns and caches the issued token   *)
(* with the endpoint's expiry, or now + 55 minutes, and the next call hits. *)
MintedAsClaimed(call) ==
    ~call.raised =>
        /\ call.ret = call.resp.token
        /\ call.ret # call.pre_token
        /\ call.post_token = call.ret
        /\ call.post_expires =
              (IF call.resp.expires_at.form = "absent"
               THEN call.at + FALLBACK_LIFETIME
               ELSE call.at + TOKEN_LIFETIME)
        /\ call.at < call.post_expires - REFRESH_MARGIN

C4_CheckThenFetchExclusive ==
    Cardinality({c \in Callers : pc[c] \in {"mint", "wait", "expiry"}}) <= 1

----------------------------------------------------------------------------
(* Properties of create_pull_request.                                       *)

Invoked == invocations > 0

(* The create_pull calls and the successful create_git_ref calls of the    *)
(* last invocation.                                                        *)
PullCalls == SelectSeq(remote_log, LAMBDA c : c.op = "create_pull")

CreatedRefs ==
    SelectSeq(remote_log, LAMBDA c : c.op = "create_git_ref" /\ c.status = 201)

(* The repository as the last invocation found it: an invocation adds at   *)
(* most one branch and one pull request, each at the end.                  *)
BranchesBefore ==
    IF CreatedRefs = <<>> THEN branches ELSE SubSeq(branches, 1, Len(branches) - 1)

PullsBefore ==
    IF pr_result.success THEN SubSeq(pulls, 1, Len(pulls) - 1) ELSE pulls

OpenBefore(head, base) ==
    \E i \in DOMAIN PullsBefore :
        /\ PullsBefore[i].state = "open"
        /\ PullsBefore[i].head = head
        /\ PullsBefore[i].base = base

(* The last invocation got as far as a resolved head and base. *)
PastResolution ==
    /\ Invoked
    /\ \/ pr_result.error \in {"", "base_missing", "head_missing",
                               "no_differences", "no_new_commits"}
       \/ pr_result.error = "github_error" /\ PullCalls # <<>>

(* The last invocation could list the branches of the repository. *)
CouldEnumerate == pr_env.fault \notin {"client", "get_repo", "get_branches"}

RequestedBase == DefaultBase(pr_args.base, default_branch)

(* Head was given equal to base and the repository had no other branch. *)
NoDistinctPair ==
    /\ Invoked
    /\ pr_args.head # Absent
    /\ pr_args.head = RequestedBase
    /\ \A b \in Range(BranchesBefore) : b.name = pr_args.head

(* C5: create_pull is only ever called with head different from base, the  *)
(* pair resolution hands on is distinct, and when head equals base and the  *)
(* repository has no other branch the invocation returns success=false      *)
(* (the error of the only branch, when the branches could be listed) and    *)
(* create_pull is never called.                                             *)
C5_HeadDiffersFromBase ==
    Invoked =>
       /\ \A i \in DOMAIN PullCalls : PullCalls[i].ref # PullCalls[i].base
       /\ PastResolution => pr_result.resolved_head # pr_result.resolved_base
       /\ NoDistinctPair =>
             /\ ~pr_result.success
             /\ PullCalls = <<>>
             /\ CouldEnumerate => pr_result.error = "only_branch"

(* Head and base were given equal, base was replaced and create_pull was   *)
(* called with the distinct pair.                                           *)
C5_Witness ==
    /\ Invoked
    /\ pr_args.head # Absent
    /\ pr_args.head = RequestedBase
    /\ PullCalls # <<>>
    /\ PullCalls[1].ref = pr_args.head
    /\ PullCalls[1].base # pr_args.head

(* C6: an invocation never calls create_pull with a head and base for      *)
(* which the repository already had an open pull request, whatever the      *)
(* outcome of the open pull request query and of the branch creations.      *)
C6_NeverSubmitsOpenPair ==
    Invoked =>
       \A i \in DOMAIN PullCalls : ~OpenBefore(PullCalls[i].ref, PullCalls[i].base)

DigitSet == Range(DigitChars)

IsDigits(s) == \A i \in DOMAIN s : s[i] \in DigitSet

(* c3/<YYYY-MM-DD>/<HHMMSS>, optionally followed by two digits. *)
IsTimestampName(n) ==
    /\ Len(n) \in {20, 22}
    /\ SubSeq(n, 1, 3) = <<"c", "3", "/">>
    /\ IsDigits(SubSeq(n, 4, 7))
    /\ n[8] = "-"
    /\ IsDigits(SubSeq(n, 9, 10))
    /\ n[11] = "-"
    /\ IsDigits(SubSeq(n, 12, 13))
    /\ n[14] = "/"
    /\ IsDigits(SubSeq(n, 15, Len(n)))

(* C7: a successful invocation whose resolved pair had an open pull        *)
(* request created a branch named c3/<YYYY-MM-DD>/<HHMMSS>[NN] at the       *)
(* commit of the resolved head, opened the pull request from that branch to *)
(* the resolved base, and reports original_head and new_branch; a           *)
(* successful invocation that created no branch reports neither and         *)
(* submitted the resolved head.                                             *)
C7_SubstitutedHeadOnSuccess ==
    (Invoked /\ pr_result.success) =>
       /\ Len(PullCalls) = 1
       /\ PullCalls[1].status = 201
       /\ PullCalls[1].base = pr_result.resolved_base
       /\ pulls[Len(pulls)] = [head |-> PullCalls[1].ref,
                               base |-> pr_result.resolved_base, state |-> "open"]
       /\ OpenBefore(pr_result.resolved_head, pr_result.resolved_base)
             => CreatedRefs # <<>>
       /\ IF CreatedRefs # <<>>
          THEN LET ref == CreatedRefs[1]
               IN  /\ IsTimestampName(ref.ref)
                   /\ ~HasBranch(BranchesBefore, ref.ref)
                   /\ ref.sha = BranchSha(BranchesBefore, pr_result.resolved_head)
                   /\ BranchSha(branches, ref.ref) = ref.sha
                   /\ PullCalls[1].ref = ref.ref
                   /\ pr_result.reports_new_branch
                   /\ pr_result.new_branch = ref.ref
                   /\ pr_result.original_head = pr_result.resolved_head
          ELSE /\ PullCalls[1].ref = pr_result.resolved_head
               /\ ~pr_result.reports_new_branch
               /\ pr_result.new_branch = Absent
               /\ pr_result.original_head = Absent

(* An open pull request of the resolved pair, and success from a branch    *)
(* created at the second attempt.                                           *)
C7_Witness ==
    /\ Invoked
    /\ pr_result.success
    /\ OpenBefore(pr_result.resolved_head, pr_result.resolved_base)
    /\ pr_result.new_branch = RetryBranchName(now, pr_env.nn)

(* The head in use at the end: the branch created, or the resolved head. *)
FinalHead ==
    IF CreatedRefs # <<>> THEN CreatedRefs[1].ref ELSE pr_result.resolved_head

(* C8: when the head finally used and base point at the same commit, the   *)
(* invocation returns success=false, create_pull is never called, and the   *)
(* error is that of no differences when both branches could be fetched.     *)
C8_SameCommitNotSubmitted ==
    ( /\ PastResolution
      /\ HasBranch(branches, FinalHead)
      /\ HasBranch(branches, pr_result.resolved_base)
      /\ BranchSha(branches, FinalHead) = BranchSha(branches, pr_result.resolved_base) )
    => /\ ~pr_result.success
       /\ PullCalls = <<>>
       /\ pr_env.fault \notin {"get_branch_base", "get_branch_head_again"}
             => pr_result.error = "no_differences"

(* Two branches of different names at the same commit, and the error. *)
C8_Witness ==
    /\ PastResolution
    /\ pr_result.resolved_head # pr_result.resolved_base
    /\ HasBranch(branches, pr_result.resolved_head)
    /\ HasBranch(branches, pr_result.resolved_base)
    /\ BranchSha(branches, pr_result.resolved_head)
         = BranchSha(branches, pr_result.resolved_base)
    /\ pr_result.error = "no_differences"

(* The branches of bs, a set, whose commit is the most recent of them. *)
MostRecent(bs) == {b \in bs : \A o \in bs : CommitDate(o.sha) <= CommitDate(b.sha)}

(* C9: with neither head nor base given, base resolves to the default      *)
(* branch and head to a branch, among all branches other than base, whose   *)
(* latest commit is the most recent, whether or not the date of a branch's  *)
(* commit can be read.                                                      *)
C9_DefaultHeadMostRecent ==
    ( /\ Invoked
      /\ CouldEnumerate
      /\ pr_args.head = Absent
      /\ pr_args.base = Absent
      /\ \E b \in Range(BranchesBefore) : b.name # default_branch )
    => /\ pr_result.resolved_base = default_branch
       /\ \E b \in MostRecent({o \in Range(BranchesBefore) : o.name # default_branch}) :
             pr_result.resolved_head = b.name

(* C10: with head equal to base, base is replaced by a branch other than   *)
(* head, a non-default one if there is one, and of those the one whose      *)
(* commit is the most recent; with no other branch the invocation returns   *)
(* success=false and creates nothing.                                       *)
C10_ReplacedBasePreferred ==
    ( /\ Invoked
      /\ CouldEnumerate
      /\ pr_args.head # Absent
      /\ pr_args.head = RequestedBase )
    => LET others == {b \in Range(BranchesBefore) : b.name # pr_args.head}
           nondefault == {b \in others : b.name # default_branch}
           preferred == IF nondefault # {} THEN nondefault ELSE others
       IN  IF others = {}
           THEN /\ ~pr_result.success
                /\ remote_log = <<>>
           ELSE /\ pr_result.resolved_head = pr_args.head
                /\ \E b \in MostRecent(preferred) : pr_result.resolved_base = b.name

(* C11: called without head, with no branch other than the chosen base in  *)
(* the repository (or no branch at all), the invocation returns             *)
(* success=false, the error being that of no branches or of no candidate    *)
(* when the branches could be listed, and makes no remote write: no         *)
(* create_git_ref and no create_pull.                                       *)
C11_NoCandidateNoWrite ==
    ( /\ Invoked
      /\ pr_args.head = Absent
      /\ \A b \in Range(BranchesBefore) : b.name = RequestedBase )
    => /\ ~pr_result.success
       /\ remote_log = <<>>
       /\ CouldEnumerate =>
             pr_result.error = (IF branches = <<>> THEN "no_branches"
                                                   ELSE "no_candidate")

(* The chosen base is the only branch. *)
C11_Witness ==
    /\ Invoked
    /\ pr_args.head = Absent
    /\ branches # <<>>
    /\ \A b \in Range(branches) : b.name = RequestedBase
    /\ pr_result.error = "no_candidate"
    /\ remote_log = <<>>

(* The invocation could fetch both branches and their histories. *)
CouldSample ==
    pr_env.fault \notin {"get_branch_base", "get_branch_head_again", "get_commits"}

(* The head finally used and base are at different commits and every       *)
(* sampled commit of head is among the sampled commits of base.             *)
HeadSampleInBase ==
    /\ PastResolution
    /\ HasBranch(branches, FinalHead)
    /\ HasBranch(branches, pr_result.resolved_base)
    /\ LET h == BranchSha(branches, FinalHead)
           b == BranchSha(branches, pr_result.resolved_base)
       IN  h # b /\ Sample(History(h)) \subseteq Sample(History(b))

(* C12: when head and base are at different commits and each of the first  *)
(* SAMPLE commits of head's history is among the first SAMPLE of base's,    *)
(* an invocation that could read the histories returns the success=false    *)
(* result of no new commits and never calls create_pull.                    *)
C12_SampledSubsetNotSubmitted ==
    (HeadSampleInBase /\ CouldSample)
    => /\ ~pr_result.success
       /\ pr_result.error = "no_new_commits"
       /\ PullCalls = <<>>

C12_Witness ==
    /\ HeadSampleInBase
    /\ CouldSample
    /\ pr_result.error = "no_new_commits"

----------------------------------------------------------------------------
(* Properties of create_branch.                                             *)

BranchCalled == branch_result.called

CreateRefCalls == SelectSeq(remote_log, LAMBDA c : c.op = "create_git_ref")

(* C13: for every branch name, the empty one and those made of slashes,    *)
(* dots or hyphens included, the name create_branch passes to               *)
(* create_git_ref starts with c3/ and has a character after it; so do the   *)
(* names collision avoidance makes, and every branch created.               *)
C13_CreatedNamesPrefixed ==
    BranchCalled =>
       /\ StartsWith(Normalize(branch_name), PREFIX)
       /\ Len(Normalize(branch_name)) > Len(PREFIX)
       /\ \A i \in DOMAIN CreateRefCalls :
             CreateRefCalls[i].ref = Normalize(branch_name)
       /\ branch_result.success =>
             /\ CreateRefCalls # <<>>
             /\ branch_result.branch_name = Normalize(branch_name)
             /\ branches[Len(branches)].name = Normalize(branch_name)
       /\ StartsWith(NewBranchName(now), PREFIX)
       /\ \A nn \in {10, 99} : StartsWith(RetryBranchName(now, nn), PREFIX)

(* A name of slashes, dots and hyphens only, passed on as c3/c3. *)
C13_Witness ==
    /\ BranchCalled
    /\ branch_name # <<>>
    /\ \A i \in DOMAIN branch_name : branch_name[i] \in {"/", ".", "-"}
    /\ CreateRefCalls # <<>>
    /\ CreateRefCalls[1].ref = PREFIX \o <<"c", "3">>

(* C14: normalizing a normalized name changes nothing. *)
C14_NormalizeIdempotent ==
    BranchCalled =>
       /\ Normalize(Normalize(branch_name)) = Normalize(branch_name)
       /\ branch_result.success =>
             Normalize(branch_result.branch_name) = branch_result.branch_name

(* A name that normalization changed, created. *)
C14_Witness ==
    /\ BranchCalled
    /\ branch_result.success
    /\ branch_result.original_branch_name # Absent
    /\ branch_result.branch_name # PREFIX \o branch_name

(* s without its trailing characters of chars. *)
RECURSIVE RStrip(_, _)
RStrip(s, chars) ==
    IF s # <<>> /\ s[Len(s)] \in chars THEN RStrip(SubSeq(s, 1, Len(s) - 1), chars)
    ELSE s

(* A segment sanitized: each character that is no letter, digit, underscore *)
(* or hyphen as a hyphen, and no hyphen at the end.                         *)
Sanitized(seg) ==
    RStrip([i \in DOMAIN seg |-> IF seg[i] \in WordChars THEN seg[i] ELSE "-"], {"-"})

(* The characters of s after its last slash. *)
RECURSIVE AfterLastSlash(_)
AfterLastSlash(s) ==
    IF s = <<>> \/ s[Len(s)] = "/" THEN <<>>
    ELSE Append(AfterLastSlash(SubSeq(s, 1, Len(s) - 1)), s[Len(s)])

(* C15, as stated: a name that does not start with c3/ and has a slash     *)
(* becomes c3/ followed by its sanitized last segment.                      *)
C15_LastSegmentOnly ==
    (BranchCalled /\ ~StartsWith(branch_name, PREFIX) /\ HasSlash(branch_name))
    => Normalize(branch_name) = PREFIX \o Sanitized(AfterLastSlash(branch_name))

(* C15, amended: a name that, its surrounding whitespace removed, does not *)
(* start with c3/ and has a slash becomes c3/ followed by its sanitized     *)
(* last segment and nothing of the earlier segments when that segment       *)
(* sanitized is not empty, and c3/c3 when it is.                            *)
C15_LastSegmentOrC3 ==
    ( /\ BranchCalled
      /\ ~StartsWith(StripChars(branch_name, Whitespace), PREFIX)
      /\ HasSlash(branch_name) )
    => Normalize(branch_name) =
          (IF Sanitized(AfterLastSlash(branch_name)) = <<>>
           THEN PREFIX \o <<"c", "3">>
           ELSE PREFIX \o Sanitized(AfterLastSlash(branch_name)))

(* A name with c3 as a segment that is not the first, and a last segment   *)
(* that is kept.                                                            *)
C15_Witness ==
    /\ BranchCalled
    /\ Len(branch_name) = 5
    /\ SubSeq(branch_name, 2, 4) = <<"c", "3", "/">>
    /\ branch_name[1] \in WordChars
    /\ branch_name[5] = "é"
    /\ branch_result.success
    /\ branch_result.branch_name = PREFIX \o <<"é">>

(* C16: the normalized name is made of letters, digits, underscores,       *)
(* hyphens and slashes, has no two slashes in a row, neither begins nor     *)
(* ends with a slash, a dot or a hyphen, and a name without a slash gives   *)
(* c3/ and its characters, each other character as a hyphen.                *)
C16_NormalizedCharacters ==
    BranchCalled =>
       LET n == Normalize(branch_name)
           trimmed == StripChars(branch_name, Whitespace)
       IN  /\ \A i \in DOMAIN n : n[i] \in WordChars \cup {"-", "/"}
           /\ \A i \in 1..(Len(n) - 1) : ~(n[i] = "/" /\ n[i + 1] = "/")
           /\ n[1] \notin {"/", ".", "-"}
           /\ n[Len(n)] \notin {"/", ".", "-"}
           /\ (~HasSlash(branch_name) /\ Sanitized(trimmed) # <<>>)
                 => n = PREFIX \o Sanitized(trimmed)

(* A dot and a space inside the name, each passed on as a hyphen. *)
C16_Witness ==
    /\ BranchCalled
    /\ branch_name = <<"c", ".", "3", " ", "é">>
    /\ branch_result.success
    /\ branch_result.branch_name = PREFIX \o <<"c", "-", "3", "-", "é">>

----------------------------------------------------------------------------
(* Properties of the JSON-RPC loop.                                         *)

(* The lines among the first n of standard input that are JSON objects. *)
ObjectLines(n) == {k \in 1..n : stdin[k].json = "object"}

Answered(k) == \E i \in DOMAIN stdout : stdout[i].line = k

(* C17: the loop prints exactly one line for each input line that is a     *)
(* JSON object, in the order of the input, with the id of the request and   *)
(* either result or error (an error having code -32603), and none for a     *)
(* line that is no JSON; when the loop is over every object line of the     *)
(* input has its answer.                                                    *)
C17_OneAnswerPerObjectLine ==
    /\ \A i \in DOMAIN stdout :
          /\ stdout[i].line \in ObjectLines(served)
          /\ stdout[i].id = (IF stdin[stdout[i].line].has_id
                             THEN stdout[i].line ELSE None)
          /\ stdout[i].top \in {"result", "error"}
          /\ stdout[i].top = "error" => stdout[i].code = 0 - 32603
    /\ \A i, j \in DOMAIN stdout : i < j => stdout[i].line < stdout[j].line
    /\ \A k \in ObjectLines(served) : Answered(k)
    /\ server # "running" => \A k \in ObjectLines(Len(stdin)) : Answered(k)

(* C18: no line ends the loop: while input is left the loop is running,    *)
(* and it ends at the end of input only.                                    *)
C18_NoLineEndsLoop ==
    /\ server # "crashed"
    /\ served < Len(stdin) => server = "running"

(* The answers to tools/call requests that passed an arguments object. *)
ToolAnswers ==
    {i \in DOMAIN stdout :
        /\ stdout[i].method = "tools/call"
        /\ stdin[stdout[i].line].params = "object"
        /\ stdin[stdout[i].line].arguments = "object"}

(* C19: every tools/call result is {content: [{type, text}]}, its JSON     *)
(* has a boolean success, and with success false it has error, error_type   *)
(* and status.                                                              *)
C19_ToolResultShape ==
    \A i \in ToolAnswers :
        /\ stdout[i].top = "result"
        /\ stdout[i].result.shape = "content"
        /\ stdout[i].result.has_success
        /\ ~stdout[i].result.success =>
              {"error", "error_type", "status"} \subseteq stdout[i].result.fields

TenTools ==
    <<"read_file", "create_branch", "create_or_update_file", "create_pull_request",
      "list_branches", "get_repository", "list_pull_requests", "get_pull_request",
      "list_repositories", "get_help">>

(* C20: every answer to tools/list holds the ten tools, whatever was asked *)
(* before and whether or not a token could be had, and tools/call takes a   *)
(* name to the operation of that name when the name is one of the ten and   *)
(* to none when it is not.                                                  *)
C20_TenToolsListedAndDispatched ==
    \A i \in DOMAIN stdout :
        /\ stdout[i].method = "tools/list" =>
              stdout[i].top = "result" /\ stdout[i].result.tools = TenTools
        /\ (stdout[i].method = "tools/call" /\ stdout[i].top = "result") =>
              stdout[i].dispatched =
                 (IF stdout[i].name \in Range(TenTools) THEN stdout[i].name ELSE "")

(* A tool call that failed for want of a token, an unlisted tool next or   *)
(* before, and then the list.                                               *)
C20_Witness ==
    /\ Len(stdout) = 2
    /\ stdout[1].method = "tools/call"
    /\ stdout[1].dispatched = "list_repositories"
    /\ stdout[1].result = OtherError
    /\ _installation_token = None
    /\ stdout[2].method = "tools/list"
    /\ stdout[2].result.tools = TenTools

----------------------------------------------------------------------------
(* The server without a private key. *)

NoKey == private_key = "" /\ private_key_path # "readable"

(* The tools/call lines that call a tool which asks for the client. *)
NeedsCredential(line) ==
    /\ line.json = "object"
    /\ line.method = "tools/call"
    /\ line.params = "object"
    /\ line.arguments = "object"
    /\ line.name \in Range(TenTools) \ {"get_help"}

(* C21: with no private key and no readable key path, every line is read   *)
(* with no request to the token endpoint, no token and no client cached;    *)
(* initialize, tools/list and get_help are answered with their results; a   *)
(* call of a tool that needs the client is answered with a result of        *)
(* success false that holds an error, and the loop goes on after it.        *)
C21_MissingKeyFailsCallOnly ==
    [][(NoKey /\ served' = served + 1) =>
         LET line == stdin[served + 1]
             last == stdout'[Len(stdout')]
         IN  /\ requests' = 0
             /\ _installation_token' = None
             /\ _token_expires_at' = None
             /\ github' = None
             /\ \A i \in DOMAIN calls' : calls'[i].sent = 0 /\ calls'[i].raised
             /\ (line.json = "object" /\ line.method \in {"initialize", "tools/list"}) =>
                   /\ Len(stdout') = Len(stdout) + 1
                   /\ last.top = "result"
                   /\ last.result.shape =
                         (IF line.method = "initialize" THEN "initialize" ELSE "tools")
                   /\ server' = "running"
             /\ (line.json = "object" /\ line.method = "tools/call"
                   /\ line.params = "object" /\ line.name = "get_help") =>
                   /\ Len(stdout') = Len(stdout) + 1
                   /\ last.top = "result"
                   /\ last.result.shape = "content"
                   /\ last.result.success
                   /\ server' = "running"
             /\ NeedsCredential(line) =>
                   /\ Len(stdout') = Len(stdout) + 1
                   /\ last.line = served + 1
                   /\ last.top = "result"
                   /\ last.result.has_success
                   /\ ~last.result.success
                   /\ "error" \in last.result.fields
                   /\ server' = "running"
      ]_vars

(* Without a key: a tool call that failed, and the list of tools answered   *)
(* after it.                                                                *)
C21_Witness ==
    /\ NoKey
    /\ Len(stdout) = 2
    /\ NeedsCredential(stdin[1])
    /\ stdin[1].name = "read_file"
    /\ ~stdout[1].result.success
    /\ stdout[2].method = "tools/list"
    /\ stdout[2].result.tools = TenTools
    /\ requests = 0
    /\ _installation_token = None
    /\ server = "running"

----------------------------------------------------------------------------
(* The token endpoint answering with an error. *)

RefusedCall(call) == call.sent = 1 /\ call.resp.status >= 400

SentBy(cs) == Cardinality({i \in DOMAIN cs : cs[i].sent = 1})

(* C22: a _get_installation_token call the endpoint answers with an error   *)
(* status raises after that one request, and leaves the cached token and    *)
(* expiry as they were; the failure is not remembered: the next call that   *)
(* finds no fresh token sends a request again.                              *)
C22_RefusalLeavesCacheAndIsForgotten ==
    [][/\ \A i \in DOMAIN calls' :
             (now' = now /\ RefusedCall(calls'[i])) =>
               /\ calls'[i].raised
               /\ calls'[i].ret = None
               /\ calls'[i].post_token = calls'[i].pre_token
               /\ calls'[i].post_expires = calls'[i].pre_expires
               /\ i = Len(calls')
               /\ _installation_token' = calls'[i].pre_token
               /\ _token_expires_at' = calls'[i].pre_expires
               /\ requests' = requests + SentBy(calls')
       /\ (/\ calls # <<>>
           /\ RefusedCall(calls[Len(calls)])
           /\ calls' # <<>>
           /\ now' = now
           /\ ~InWindow(calls'[1])) => calls'[1].sent = 1
      ]_vars

(* A stale cached token, the endpoint refusing to replace it, after a      *)
(* request that was answered.                                               *)
C22_Witness ==
    /\ calls # <<>>
    /\ RefusedCall(calls[Len(calls)])
    /\ calls[Len(calls)].pre_token # None
    /\ _installation_token = calls[Len(calls)].pre_token
    /\ _token_expires_at = calls[Len(calls)].pre_expires
    /\ requests = 2

----------------------------------------------------------------------------
(* C23: an invocation calls create_git_ref, or submits another head than   *)
(* the resolved one, only when the repository had an open pull request of   *)
(* exactly the resolved head and base: open pull requests of the same head  *)
(* and another base, or of the same base and another head, and a closed     *)
(* one of the same pair, cause neither.                                     *)
C23_BranchOnlyForSameOpenPair ==
    (Invoked /\ ~OpenBefore(pr_result.resolved_head, pr_result.resolved_base)) =>
       /\ CreateRefCalls = <<>>
       /\ branches = BranchesBefore
       /\ ~pr_result.reports_new_branch
       /\ \A i \in DOMAIN PullCalls : PullCalls[i].ref = pr_result.resolved_head

(* A closed pull request of the resolved pair, an open one of the same     *)
(* head and an open one of the same base: the resolved head is submitted.   *)
C23_Witness ==
    /\ Invoked
    /\ pr_result.success
    /\ CreateRefCalls = <<>>
    /\ PullCalls # <<>>
    /\ PullCalls[1].ref = pr_result.resolved_head
    /\ \E i, j, k \in DOMAIN PullsBefore :
          /\ PullsBefore[i] = [head |-> pr_result.resolved_head,
                               base |-> pr_result.resolved_base, state |-> "closed"]
          /\ PullsBefore[j].state = "open"
          /\ PullsBefore[j].head = pr_result.resolved_head
          /\ PullsBefore[j].base # pr_result.resolved_base
          /\ PullsBefore[k].state = "open"
          /\ PullsBefore[k].head # pr_result.resolved_head
          /\ PullsBefore[k].base = pr_result.resolved_base

----------------------------------------------------------------------------
(* create_or_update_file. *)

FileWrites ==
    SelectSeq(file_log, LAMBDA c : c.op \in {"update_file", "create_file"})

(* The existence check answered: the file's contents, or "not found". *)
CheckAnswered ==
    /\ file_result.called
    /\ file_env.fault \in {"none", "write"}
    /\ file_env.entry.kind \in {"file", "absent"}

(* The existence check failed otherwise than by "not found". *)
CheckFailed ==
    /\ file_result.called
    /\ file_env.fault \in {"get_contents_denied", "get_contents_timeout"}

(* C24: an invocation makes at most one write call, and exactly one when   *)
(* the existence check was answered: update_file with the sha of the file   *)
(* if and only if the file was on the branch, create_file otherwise, the    *)
(* action reported being "updated" and "created" accordingly; when the      *)
(* check failed otherwise than by "not found", create_file is not called.   *)
C24_UpdateIffExistsElseCreate ==
    /\ Len(FileWrites) <= 1
    /\ CheckAnswered =>
          /\ Len(FileWrites) = 1
          /\ IF file_env.entry.kind = "file"
             THEN /\ FileWrites[1].op = "update_file"
                  /\ FileWrites[1].sha = file_env.entry.sha
                  /\ file_result.success => file_result.action = "updated"
             ELSE /\ FileWrites[1].op = "create_file"
                  /\ file_result.success => file_result.action = "created"
    /\ CheckFailed => \A i \in DOMAIN FileWrites : FileWrites[i].op # "create_file"

----------------------------------------------------------------------------
(* C25: an invocation that ends with the error of no differences or of no  *)
(* new commits has made no create_git_ref call and leaves the repository    *)
(* with the branches it had: both guards come before collision avoidance.   *)
C25_GuardsBeforeBranchCreation ==
    (Invoked /\ pr_result.error \in {"no_differences", "no_new_commits"}) =>
       /\ \A i \in DOMAIN remote_log : remote_log[i].op # "create_git_ref"
       /\ \A i \in DOMAIN branches : ~IsTimestampName(branches[i].name)
                                        \/ HasBranch(BranchesBefore, branches[i].name)

----------------------------------------------------------------------------
(* The histories the last invocation fetched for the guard of no new       *)
(* commits.                                                                 *)
CommitsCalls == SelectSeq(remote_log, LAMBDA c : c.op = "get_commits")

(* C26: the guard of no new commits reads at most SAMPLE commits of head    *)
(* and at most SAMPLE of base, and whether it fails the invocation is        *)
(* decided by the first SAMPLE commits of the two histories alone.           *)
C26_GuardReadsTenPerSide ==
    (Invoked /\ CommitsCalls # <<>>) =>
       /\ Len(CommitsCalls) = 2
       /\ \A i \in DOMAIN CommitsCalls : CommitsCalls[i].read <= 10
       /\ LET h == SubSeq(History(CommitsCalls[1].sha), 1,
                            IF CommitsCalls[1].read < 10 THEN CommitsCalls[1].read ELSE 10)
              b == SubSeq(History(CommitsCalls[2].sha), 1,
                            IF CommitsCalls[2].read < 10 THEN CommitsCalls[2].read ELSE 10)
          IN  (pr_result.error = "no_new_commits") <=>
                 (Range(h) \subseteq Range(b) /\ h[1] # b[1])

----------------------------------------------------------------------------
(* The two digits of a number from 10 to 99. *)
IsTwoDigitSuffix(s) == Len(s) = 2 /\ IsDigits(s) /\ s[1] # "0"

(* The last invocation created no branch in place of the resolved head. *)
NoSubstitution ==
    /\ ~pr_result.reports_new_branch
    /\ pr_result.new_branch = Absent
    /\ pr_result.original_head = Absent
    /\ \A i \in DOMAIN PullCalls : PullCalls[i].ref = pr_result.resolved_head

(* C27: an invocation calls create_git_ref at most twice; a second call is  *)
(* made only after the first was answered 422, with the first name          *)
(* followed by two digits of a number from 10 to 99 and with the same       *)
(* commit; when the first call fails with another status, or the second     *)
(* call fails, no substitution is reported.                                 *)
C27_RetryOnceOnCollisionOnly ==
    Invoked =>
       /\ Len(CreateRefCalls) <= 2
       /\ Len(CreateRefCalls) = 2 =>
             /\ CreateRefCalls[1].status = 422
             /\ Len(CreateRefCalls[2].ref) = Len(CreateRefCalls[1].ref) + 2
             /\ SubSeq(CreateRefCalls[2].ref, 1, Len(CreateRefCalls[1].ref))
                    = CreateRefCalls[1].ref
             /\ IsTwoDigitSuffix(SubSeq(CreateRefCalls[2].ref,
                                        Len(CreateRefCalls[1].ref) + 1,
                                        Len(CreateRefCalls[2].ref)))
             /\ CreateRefCalls[2].sha = CreateRefCalls[1].sha
       /\ (CreateRefCalls # <<>>
             /\ CreateRefCalls[Len(CreateRefCalls)].status # 201) => NoSubstitution

(* A first call answered 422 and a second call that failed too: the        *)
(* resolved head was submitted.                                             *)
C27_Witness ==
    /\ Invoked
    /\ Len(CreateRefCalls) = 2
    /\ CreateRefCalls[1].status = 422
    /\ CreateRefCalls[2].status # 201
    /\ PullCalls # <<>>
    /\ PullCalls[1].ref = pr_result.resolved_head

----------------------------------------------------------------------------
(* The expiry that belongs to the token of response r received at time t. *)
IssuedExpiry(r, t) ==
    IF r.expires_at.form = "absent" THEN t + FALLBACK_LIFETIME
    ELSE FromIsoFormat(r.expires_at)

(* C28: after a _get_installation_token call, whatever its outcome, the     *)
(* cached token and the cached expiry are both those of the token just      *)
(* issued or both what they were before the call.                           *)
C28_TokenAndExpirySameIssuance ==
    \A i \in CallIndices :
        \/ /\ calls[i].post_token = calls[i].pre_token
           /\ calls[i].post_expires = calls[i].pre_expires
        \/ /\ calls[i].sent = 1
           /\ calls[i].resp.token # None
           /\ calls[i].resp.expires_at.form # "unparsable"
           /\ calls[i].post_token = calls[i].resp.token
           /\ calls[i].post_expires = IssuedExpiry(calls[i].resp, calls[i].at)

----------------------------------------------------------------------------
(* The create_pull calls of the last invocation that were accepted. *)
CreatedPulls == SelectSeq(PullCalls, LAMBDA c : c.status = 201)

(* C29: an invocation creates at most one branch and at most one pull      *)
(* request; its result reports new_branch and original_head exactly when    *)
(* it created a branch; with success false it created none; and the head    *)
(* passed to create_pull differs from the resolved head exactly when a      *)
(* branch was created.                                                      *)
C29_BranchCreatedIffReported ==
    Invoked =>
       /\ Len(CreatedRefs) <= 1
       /\ Len(CreatedPulls) <= 1
       /\ pr_result.reports_new_branch <=> CreatedRefs # <<>>
       /\ (pr_result.new_branch # Absent) <=> CreatedRefs # <<>>
       /\ (pr_result.original_head # Absent) <=> CreatedRefs # <<>>
       /\ ~pr_result.success => CreatedRefs = <<>>
       /\ \A i \in DOMAIN PullCalls :
             (PullCalls[i].ref # pr_result.resolved_head) <=> CreatedRefs # <<>>

----------------------------------------------------------------------------
(* The places, in the enumeration the last invocation received, of the     *)
(* branches other than base.                                                *)
HeadCandidates == {i \in DOMAIN BranchesBefore : BranchesBefore[i].name # RequestedBase}

(* Head was left to the invocation, which could list the branches, and the  *)
(* commit date of every candidate could be read.                            *)
HeadDefaulted ==
    /\ Invoked
    /\ CouldEnumerate
    /\ pr_args.head = Absent
    /\ HeadCandidates # {}
    /\ \A i \in HeadCandidates : BranchesBefore[i].meta = "ok"

(* C30: the head chosen by default is determined by the enumeration of the  *)
(* branches and their commit dates: it is the branch, other than base, of    *)
(* the most recent commit date, and of several of that date the one          *)
(* enumerated first.                                                         *)
C30_DefaultHeadFirstOfNewest ==
    HeadDefaulted =>
       \E i \in HeadCandidates :
          /\ pr_result.resolved_head = BranchesBefore[i].name
          /\ \A j \in HeadCandidates :
                /\ CommitDate(BranchesBefore[j].sha) <= CommitDate(BranchesBefore[i].sha)
                /\ j < i => CommitDate(BranchesBefore[j].sha)
                               < CommitDate(BranchesBefore[i].sha)

(* feat enumerated before dev, both of the most recent date: feat is head. *)
C30_Witness ==
    /\ HeadDefaulted
    /\ pr_result.resolved_head = Feat
    /\ \E i, j \in HeadCandidates :
          /\ i < j
          /\ BranchesBefore[i].name = Feat
          /\ BranchesBefore[j].name = Dev
          /\ BranchesBefore[i].sha # BranchesBefore[j].sha
          /\ CommitDate(BranchesBefore[i].sha) = CommitDate(BranchesBefore[j].sha)

====
